---- MODULE Spec2Model ----
(***************************************************************************)
(* Command review of the natural-language shell "x": the risk classifier   *)
(* (internal/safety/safety.go), the Bubble Tea review session              *)
(* (internal/ui/tui.go) and the caller loop (internal/cli/root.go).        *)
(*                                                                         *)
(* Text is modelled as a sequence of one-character strings, so that        *)
(* trimming, lowercasing and regular-expression matching are computed on   *)
(* the characters as the Go code computes them.                            *)
(***************************************************************************)
EXTENDS Integers, Sequences, FiniteSets, TLC

----------------------------------------------------------------------------
(* Characters and strings (Go: strings.TrimSpace, strings.ToLower)          *)

UpperLetters == <<"A","B","C","D","E","F","G","H","I","J","K","L","M",
                  "N","O","P","Q","R","S","T","U","V","W","X","Y","Z">>

LowerLetters == <<"a","b","c","d","e","f","g","h","i","j","k","l","m",
                  "n","o","p","q","r","s","t","u","v","w","x","y","z">>

Digits == {"0","1","2","3","4","5","6","7","8","9"}

Range(f) == {f[x] : x \in DOMAIN f}

\* regexp \s is [\t\n\f\r ]
ReSpace == {" ", "\t", "\n", "\f", "\r"}

\* unicode.IsSpace, over the characters used here
GoSpace == ReSpace

\* regexp word characters, for \b
WordChars == Range(UpperLetters) \cup Range(LowerLetters) \cup Digits \cup {"_"}

LowerChar(c) ==
    IF c \in Range(UpperLetters)
    THEN LowerLetters[CHOOSE n \in DOMAIN UpperLetters : UpperLetters[n] = c]
    ELSE c

ToLower(s) == [n \in DOMAIN s |-> LowerChar(s[n])]

RECURSIVE TrimLeft(_)
TrimLeft(s) ==
    IF s # <<>> /\ Head(s) \in GoSpace THEN TrimLeft(Tail(s)) ELSE s

RECURSIVE TrimRight(_)
TrimRight(s) ==
    IF s # <<>> /\ s[Len(s)] \in GoSpace
    THEN TrimRight(SubSeq(s, 1, Len(s) - 1))
    ELSE s

TrimSpace(s) == TrimRight(TrimLeft(s))

----------------------------------------------------------------------------
(* Regular expressions (Go regexp, RE2 syntax) as syntax trees, and         *)
(* Regexp.MatchString: an unanchored search.                                *)

Ch(c)    == [k |-> "ch", c |-> c]
Cls(S)   == [k |-> "set", s |-> S]
NCls(S)  == [k |-> "nset", s |-> S]
AnyCh    == [k |-> "any"]
WordB    == [k |-> "wb"]
Cat(rs)  == [k |-> "cat", r |-> rs]
Alt(rs)  == [k |-> "alt", r |-> rs]
Star(r)  == [k |-> "star", r |-> r]
Plus(r)  == [k |-> "plus", r |-> r]
Opt(r)   == [k |-> "opt", r |-> r]
Lit(s)   == Cat([n \in DOMAIN s |-> Ch(s[n])])
Sp       == Cls(ReSpace)
Letter   == Cls(Range(UpperLetters) \cup Range(LowerLetters))

IsWordAt(s, i) == i >= 1 /\ i <= Len(s) /\ s[i] \in WordChars

RECURSIVE Ends(_, _, _)
RECURSIVE EndsCat(_, _, _, _)
RECURSIVE Closure(_, _, _, _)

\* The positions just after the matches of re in s that begin at a position of
\* from (the simulation of the automaton of re over s).
Ends(re, s, from) ==
    CASE re.k = "ch"   -> {i + 1 : i \in {j \in from : j <= Len(s) /\ s[j] = re.c}}
      [] re.k = "set"  -> {i + 1 : i \in {j \in from : j <= Len(s) /\ s[j] \in re.s}}
      [] re.k = "nset" -> {i + 1 : i \in {j \in from : j <= Len(s) /\ s[j] \notin re.s}}
      [] re.k = "any"  -> {i + 1 : i \in {j \in from : j <= Len(s) /\ s[j] # "\n"}}
      [] re.k = "wb"   -> {j \in from : IsWordAt(s, j - 1) # IsWordAt(s, j)}
      [] re.k = "cat"  -> EndsCat(re.r, 1, s, from)
      [] re.k = "alt"  -> UNION {Ends(re.r[n], s, from) : n \in DOMAIN re.r}
      [] re.k = "opt"  -> from \cup Ends(re.r, s, from)
      [] re.k = "star" -> Closure(re.r, s, from, from)
      [] re.k = "plus" -> LET first == Ends(re.r, s, from)
                          IN  Closure(re.r, s, first, first)

EndsCat(rs, n, s, from) ==
    IF n > Len(rs) \/ from = {} THEN from
    ELSE EndsCat(rs, n + 1, s, Ends(rs[n], s, from))

Closure(r, s, seen, frontier) ==
    LET new == Ends(r, s, frontier) \ seen
    IN  IF new = {} THEN seen ELSE Closure(r, s, seen \cup new, new)

\* Regexp.MatchString: the pattern matches somewhere in s
MatchString(re, s) == Ends(re, s, 1 .. Len(s) + 1) # {}

----------------------------------------------------------------------------
(* internal/safety/safety.go                                                *)

RiskNone     == 0
RiskLow      == 1
RiskMedium   == 2
RiskHigh     == 3
RiskCritical == 4

RiskLevels == RiskNone .. RiskCritical

dangerousPatterns == <<
    \* safety.go:37  rm\s+(-[a-zA-Z]*[rf][a-zA-Z]*\s+)*(/|/\*|\s+/\s|"\s*/\s*")
    [Pattern |-> Cat(<<Lit(<<"r","m">>), Plus(Sp), Star(Cat(<<Ch("-"), Star(Letter), Cls({"r","f"}), Star(Letter), Plus(Sp)>>)), Alt(<<Ch("/"), Lit(<<"/","*">>), Cat(<<Plus(Sp), Ch("/"), Sp>>), Cat(<<Ch("\""), Star(Sp), Ch("/"), Star(Sp), Ch("\"")>>)>>)>>),
     Description |-> "Removes root filesystem - THIS WILL DESTROY YOUR SYSTEM",
     Level |-> RiskCritical,
     Suggestion |-> "Never run rm -rf on root. Specify the exact path you want to delete."],
    \* safety.go:43  rm\s+(-[a-zA-Z]*[rf][a-zA-Z]*\s+)*(~|~/\*|/home/\*|/Users/\*)
    [Pattern |-> Cat(<<Lit(<<"r","m">>), Plus(Sp), Star(Cat(<<Ch("-"), Star(Letter), Cls({"r","f"}), Star(Letter), Plus(Sp)>>)), Alt(<<Ch("~"), Lit(<<"~","/","*">>), Lit(<<"/","h","o","m","e","/","*">>), Lit(<<"/","U","s","e","r","s","/","*">>)>>)>>),
     Description |-> "Removes entire home directory",
     Level |-> RiskCritical,
     Suggestion |-> "Specify the exact subdirectory you want to delete."],
    \* safety.go:49  mkfs\s
    [Pattern |-> Cat(<<Lit(<<"m","k","f","s">>), Sp>>),
     Description |-> "Formats a filesystem - ALL DATA WILL BE LOST",
     Level |-> RiskCritical,
     Suggestion |-> "Double-check the device path. This is irreversible."],
    \* safety.go:55  dd\s+.*of\s*=\s*/dev/(sd[a-z]|nvme|hd[a-z]|disk)\b
    [Pattern |-> Cat(<<Lit(<<"d","d">>), Plus(Sp), Star(AnyCh), Lit(<<"o","f">>), Star(Sp), Ch("="), Star(Sp), Lit(<<"/","d","e","v","/">>), Alt(<<Cat(<<Lit(<<"s","d">>), Cls(Range(LowerLetters))>>), Lit(<<"n","v","m","e">>), Cat(<<Lit(<<"h","d">>), Cls(Range(LowerLetters))>>), Lit(<<"d","i","s","k">>)>>), WordB>>),
     Description |-> "Writes directly to disk - CAN DESTROY DATA",
     Level |-> RiskCritical,
     Suggestion |-> "Verify the output device is correct. Consider backing up first."],
    \* safety.go:61  >\s*/dev/(sd[a-z]|nvme|hd[a-z])
    [Pattern |-> Cat(<<Ch(">"), Star(Sp), Lit(<<"/","d","e","v","/">>), Alt(<<Cat(<<Lit(<<"s","d">>), Cls(Range(LowerLetters))>>), Lit(<<"n","v","m","e">>), Cat(<<Lit(<<"h","d">>), Cls(Range(LowerLetters))>>)>>)>>),
     Description |-> "Redirects output to raw disk device",
     Level |-> RiskCritical,
     Suggestion |-> "This will overwrite the disk. Use a file path instead."],
    \* safety.go:67  :(){ :|:& };:   (an alternation: ":" "()" "{ :"  or  ":& };:")
    [Pattern |-> Alt(<<Cat(<<Ch(":"), Cat(<<>>), Lit(<<"{"," ",":">>)>>), Lit(<<":","&"," ","}",";",":">>)>>),
     Description |-> "Fork bomb - WILL CRASH YOUR SYSTEM",
     Level |-> RiskCritical,
     Suggestion |-> "This is a malicious command. Do not run it."],
    \* safety.go:75  rm\s+(-[a-zA-Z]*[rf][a-zA-Z]*\s+)+
    [Pattern |-> Cat(<<Lit(<<"r","m">>), Plus(Sp), Plus(Cat(<<Ch("-"), Star(Letter), Cls({"r","f"}), Star(Letter), Plus(Sp)>>))>>),
     Description |-> "Recursive/forced deletion",
     Level |-> RiskHigh,
     Suggestion |-> "Consider using 'rm -i' for interactive confirmation, or list files first with 'ls'."],
    \* safety.go:81  chmod\s+(-R\s+)?(000|777)\s
    [Pattern |-> Cat(<<Lit(<<"c","h","m","o","d">>), Plus(Sp), Opt(Cat(<<Lit(<<"-","R">>), Plus(Sp)>>)), Alt(<<Lit(<<"0","0","0">>), Lit(<<"7","7","7">>)>>), Sp>>),
     Description |-> "Dangerous permission change",
     Level |-> RiskHigh,
     Suggestion |-> "777 makes files world-writable. 000 removes all access. Use more specific permissions."],
    \* safety.go:87  chmod\s+-R\s
    [Pattern |-> Cat(<<Lit(<<"c","h","m","o","d">>), Plus(Sp), Lit(<<"-","R">>), Sp>>),
     Description |-> "Recursive permission change",
     Level |-> RiskMedium,
     Suggestion |-> "Verify the target directory before applying recursive permission changes."],
    \* safety.go:93  chown\s+-R\s
    [Pattern |-> Cat(<<Lit(<<"c","h","o","w","n">>), Plus(Sp), Lit(<<"-","R">>), Sp>>),
     Description |-> "Recursive ownership change",
     Level |-> RiskMedium,
     Suggestion |-> "Verify the target directory and new owner before applying."],
    \* safety.go:99  >\s*/etc/
    [Pattern |-> Cat(<<Ch(">"), Star(Sp), Lit(<<"/","e","t","c","/">>)>>),
     Description |-> "Overwrites system configuration file",
     Level |-> RiskHigh,
     Suggestion |-> "Back up the original file first. Consider using '>>' to append instead."],
    \* safety.go:105  dd\s+
    [Pattern |-> Cat(<<Lit(<<"d","d">>), Plus(Sp)>>),
     Description |-> "Low-level disk operation",
     Level |-> RiskHigh,
     Suggestion |-> "Double-check if= and of= parameters. Data can be lost if reversed."],
    \* safety.go:111  mv\s+.*\s+/dev/null
    [Pattern |-> Cat(<<Lit(<<"m","v">>), Plus(Sp), Star(AnyCh), Plus(Sp), Lit(<<"/","d","e","v","/","n","u","l","l">>)>>),
     Description |-> "Moving files to /dev/null deletes them permanently",
     Level |-> RiskHigh,
     Suggestion |-> "Use 'rm' if you want to delete. This is irreversible."],
    \* safety.go:117  curl\s+.*\|\s*(sudo\s+)?(ba)?sh
    [Pattern |-> Cat(<<Lit(<<"c","u","r","l">>), Plus(Sp), Star(AnyCh), Ch("|"), Star(Sp), Opt(Cat(<<Lit(<<"s","u","d","o">>), Plus(Sp)>>)), Opt(Lit(<<"b","a">>)), Lit(<<"s","h">>)>>),
     Description |-> "Piping remote script directly to shell",
     Level |-> RiskHigh,
     Suggestion |-> "Download the script first, review it, then execute."],
    \* safety.go:123  wget\s+.*\|\s*(sudo\s+)?(ba)?sh
    [Pattern |-> Cat(<<Lit(<<"w","g","e","t">>), Plus(Sp), Star(AnyCh), Ch("|"), Star(Sp), Opt(Cat(<<Lit(<<"s","u","d","o">>), Plus(Sp)>>)), Opt(Lit(<<"b","a">>)), Lit(<<"s","h">>)>>),
     Description |-> "Piping remote script directly to shell",
     Level |-> RiskHigh,
     Suggestion |-> "Download the script first, review it, then execute."],
    \* safety.go:129  eval\s+.*\$
    [Pattern |-> Cat(<<Lit(<<"e","v","a","l">>), Plus(Sp), Star(AnyCh), Ch("$")>>),
     Description |-> "Executing dynamically constructed command",
     Level |-> RiskHigh,
     Suggestion |-> "Avoid eval when possible. It can execute unintended code."],
    \* safety.go:137  sudo\s+rm\s
    [Pattern |-> Cat(<<Lit(<<"s","u","d","o">>), Plus(Sp), Lit(<<"r","m">>), Sp>>),
     Description |-> "Deleting files with elevated privileges",
     Level |-> RiskMedium,
     Suggestion |-> "Verify the files to be deleted before running with sudo."],
    \* safety.go:143  sudo\s+
    [Pattern |-> Cat(<<Lit(<<"s","u","d","o">>), Plus(Sp)>>),
     Description |-> "Running with elevated privileges",
     Level |-> RiskLow,
     Suggestion |-> "Command runs as root. Verify this is necessary."],
    \* safety.go:149  rm\s
    [Pattern |-> Cat(<<Lit(<<"r","m">>), Sp>>),
     Description |-> "Deleting files",
     Level |-> RiskLow,
     Suggestion |-> "Consider using trash/recycle instead of permanent deletion."],
    \* safety.go:155  kill\s+-9
    [Pattern |-> Cat(<<Lit(<<"k","i","l","l">>), Plus(Sp), Lit(<<"-","9">>)>>),
     Description |-> "Force killing process",
     Level |-> RiskMedium,
     Suggestion |-> "SIGKILL doesn't allow graceful shutdown. Try 'kill' without -9 first."],
    \* safety.go:161  killall\s
    [Pattern |-> Cat(<<Lit(<<"k","i","l","l","a","l","l">>), Sp>>),
     Description |-> "Killing all processes by name",
     Level |-> RiskMedium,
     Suggestion |-> "This affects ALL processes with that name. Be specific."],
    \* safety.go:167  pkill\s
    [Pattern |-> Cat(<<Lit(<<"p","k","i","l","l">>), Sp>>),
     Description |-> "Killing processes by pattern",
     Level |-> RiskMedium,
     Suggestion |-> "Verify which processes will be affected with 'pgrep' first."],
    \* safety.go:173  shutdown|reboot|poweroff|halt
    [Pattern |-> Alt(<<Lit(<<"s","h","u","t","d","o","w","n">>), Lit(<<"r","e","b","o","o","t">>), Lit(<<"p","o","w","e","r","o","f","f">>), Lit(<<"h","a","l","t">>)>>),
     Description |-> "System shutdown/reboot",
     Level |-> RiskMedium,
     Suggestion |-> "This will terminate all running programs."],
    \* safety.go:179  systemctl\s+(stop|disable|mask)\s
    [Pattern |-> Cat(<<Lit(<<"s","y","s","t","e","m","c","t","l">>), Plus(Sp), Alt(<<Lit(<<"s","t","o","p">>), Lit(<<"d","i","s","a","b","l","e">>), Lit(<<"m","a","s","k">>)>>), Sp>>),
     Description |-> "Stopping/disabling system service",
     Level |-> RiskMedium,
     Suggestion |-> "Verify this won't affect critical system functionality."],
    \* safety.go:185  iptables\s+-F
    [Pattern |-> Cat(<<Lit(<<"i","p","t","a","b","l","e","s">>), Plus(Sp), Lit(<<"-","F">>)>>),
     Description |-> "Flushing firewall rules",
     Level |-> RiskHigh,
     Suggestion |-> "This removes all firewall rules. Your system may become exposed."],
    \* safety.go:191  ufw\s+disable
    [Pattern |-> Cat(<<Lit(<<"u","f","w">>), Plus(Sp), Lit(<<"d","i","s","a","b","l","e">>)>>),
     Description |-> "Disabling firewall",
     Level |-> RiskHigh,
     Suggestion |-> "This disables the firewall entirely. Your system may become exposed."],
    \* safety.go:197  history\s+-c
    [Pattern |-> Cat(<<Lit(<<"h","i","s","t","o","r","y">>), Plus(Sp), Lit(<<"-","c">>)>>),
     Description |-> "Clearing shell history",
     Level |-> RiskLow,
     Suggestion |-> "This is often used to hide malicious activity."],
    \* safety.go:203  shred\s
    [Pattern |-> Cat(<<Lit(<<"s","h","r","e","d">>), Sp>>),
     Description |-> "Securely erasing files (unrecoverable)",
     Level |-> RiskHigh,
     Suggestion |-> "Shredded files cannot be recovered. Verify targets carefully."],
    \* safety.go:209  truncate\s
    [Pattern |-> Cat(<<Lit(<<"t","r","u","n","c","a","t","e">>), Sp>>),
     Description |-> "Truncating files",
     Level |-> RiskMedium,
     Suggestion |-> "This can cause data loss. Verify the target file."],
    \* safety.go:215  >\s*[^|&]
    [Pattern |-> Cat(<<Ch(">"), Star(Sp), NCls({"|","&"})>>),
     Description |-> "Overwriting file with redirect",
     Level |-> RiskLow,
     Suggestion |-> "This overwrites the file. Use '>>' to append instead if needed."]
>>

\* A mutant of AnalyzeFrom: the level is that of the last rule that matched
RECURSIVE AnalyzeFromLast(_, _, _)
AnalyzeFromLast(cmd, n, assessment) ==
    IF n > Len(dangerousPatterns) THEN assessment
    ELSE LET pattern == dangerousPatterns[n]
         IN  IF MatchString(pattern.Pattern, cmd)
             THEN AnalyzeFromLast(cmd, n + 1,
                    [Level |-> pattern.Level,
                     Warnings |-> Append(assessment.Warnings, pattern.Description),
                     Suggestions |-> IF pattern.Suggestion # ""
                                     THEN Append(assessment.Suggestions, pattern.Suggestion)
                                     ELSE assessment.Suggestions])
             ELSE AnalyzeFromLast(cmd, n + 1, assessment)

\* The loop of AnalyzeCommand over dangerousPatterns[n ..], in table order.
RECURSIVE AnalyzeFrom(_, _, _)
AnalyzeFrom(cmd, n, assessment) ==
    IF n > Len(dangerousPatterns) THEN assessment
    ELSE LET pattern == dangerousPatterns[n]
         IN  IF MatchString(pattern.Pattern, cmd)
             THEN AnalyzeFrom(cmd, n + 1,
                    [Level |-> IF pattern.Level > assessment.Level
                               THEN pattern.Level ELSE assessment.Level,
                     Warnings |-> Append(assessment.Warnings, pattern.Description),
                     Suggestions |-> IF pattern.Suggestion # ""
                                     THEN Append(assessment.Suggestions, pattern.Suggestion)
                                     ELSE assessment.Suggestions])
             ELSE AnalyzeFrom(cmd, n + 1, assessment)

\* A mutant of AnalyzeCommand: the assessment starts at Low
AnalyzeCommandFromLow(command) ==
    AnalyzeFrom(ToLower(TrimSpace(command)), 1,
                [Level |-> RiskLow, Warnings |-> <<>>, Suggestions |-> <<>>])

\* A mutant of AnalyzeCommand: the text is matched in the case it was written in
AnalyzeCommandCaseKept(command) ==
    AnalyzeFrom(TrimSpace(command), 1,
                [Level |-> RiskNone, Warnings |-> <<>>, Suggestions |-> <<>>])

AnalyzeCommand(command) ==
    AnalyzeFrom(ToLower(TrimSpace(command)), 1,
                [Level |-> RiskNone, Warnings |-> <<>>, Suggestions |-> <<>>])

GetRiskLevelName(level) ==
    CASE level = RiskNone     -> "Safe"
      [] level = RiskLow      -> "Low Risk"
      [] level = RiskMedium   -> "Medium Risk"
      [] level = RiskHigh     -> "High Risk"
      [] level = RiskCritical -> "CRITICAL DANGER"
      [] OTHER                -> "Unknown"

WordConfirm == <<"C","O","N","F","I","R","M">>

WordUnderstand == <<"I"," ","U","N","D","E","R","S","T","A","N","D"," ","T","H","E"," ","R","I","S","K">>

\* A mutant of GetConfirmationWord: one word for both dangerous levels
GetConfirmationWordSame(level) ==
    CASE level = RiskHigh     -> WordConfirm
      [] level = RiskCritical -> WordConfirm
      [] OTHER                -> <<>>

GetConfirmationWord(level) ==
    CASE level = RiskHigh     -> WordConfirm
      [] level = RiskCritical -> WordUnderstand
      [] OTHER                -> <<>>

----------------------------------------------------------------------------
(* github.com/charmbracelet/bubbletea key messages, as internal/ui/tui.go   *)
(* reads them: msg.String() names the key, and a KeyRunes message carries   *)
(* the typed (or pasted) characters.                                        *)

KeyEnter == <<"e","n","t","e","r">>
KeyEsc   == <<"e","s","c">>
KeyCtrlC == <<"c","t","r","l","+","c">>
KeyCtrlU == <<"c","t","r","l","+","u">>

NamedKey(name) == [Type |-> "KeyNamed", Runes |-> name]
RunesKey(text) == [Type |-> "KeyRunes", Runes |-> text]

\* tea.KeyMsg.String()
String(msg) == msg.Runes

----------------------------------------------------------------------------
(* github.com/charmbracelet/bubbles/textinput, as internal/ui/tui.go uses   *)
(* it.  The cursor stays at the end of the value: typed text is appended.   *)

\* tui.go:158  ti.CharLimit = 500
CharLimit == 500

PlaceholderNew    == "Type your refinement request..."
PlaceholderRefine == "e.g., add timestamps, make recursive..."

Truncate(s, n) == IF Len(s) > n THEN SubSeq(s, 1, n) ELSE s

\* textinput.New() with the settings of NewModel
NewTextInput == [value |-> <<>>, focus |-> FALSE, placeholder |-> PlaceholderNew]

\* textinput.Model.SetValue: the value is cut at CharLimit
SetValue(ti, s) == [ti EXCEPT !.value = Truncate(s, CharLimit)]

Focus(ti) == [ti EXCEPT !.focus = TRUE]

Blur(ti) == [ti EXCEPT !.focus = FALSE]

\* textinput.Model.Update on a key message: ignored unless focused; runes are
\* inserted as far as CharLimit allows; ctrl+u deletes the text before the cursor.
TextInputUpdate(ti, msg) ==
    IF ~ti.focus THEN ti
    ELSE IF msg.Type = "KeyRunes"
         THEN [ti EXCEPT !.value = Truncate(ti.value \o msg.Runes, CharLimit)]
    ELSE IF String(msg) = KeyCtrlU
         THEN [ti EXCEPT !.value = <<>>]
    ELSE ti

----------------------------------------------------------------------------
(* internal/ui/tui.go                                                       *)

ActionNone    == 0
ActionExecute == 1
ActionCancel  == 2
ActionEdit    == 3
ActionRefine  == 4
ActionExplain == 5

\* The zero Result
NoResult == [Action |-> ActionNone, Command |-> <<>>, RefinementQuery |-> <<>>]

\* tui.go:169  width: 80
DefaultWidth == 80

NewModel(cmd, providerName, model) ==
    [command         |-> cmd,
     explanation     |-> "",
     provider        |-> providerName,
     modelName       |-> model,
     riskAssessment  |-> AnalyzeCommand(cmd),
     showExplanation |-> FALSE,
     editMode        |-> FALSE,
     refineMode      |-> FALSE,
     confirmMode     |-> FALSE,
     textInput       |-> NewTextInput,
     result          |-> NoResult,
     done            |-> FALSE,
     width           |-> DefaultWidth]

SetExplanation(mdl, text) ==
    [mdl EXCEPT !.explanation = text, !.showExplanation = TRUE]

\* Update, case tea.WindowSizeMsg
UpdateWindowSize(mdl, w) == [mdl EXCEPT !.width = w]

ExecuteResult(mdl) ==
    [Action |-> ActionExecute, Command |-> mdl.command, RefinementQuery |-> <<>>]

CancelResult(mdl) ==
    [Action |-> ActionCancel, Command |-> mdl.command, RefinementQuery |-> <<>>]

\* A mutant of UpdateEditEnter: the assessment is not recomputed
UpdateEditEnterStale(mdl) ==
    [mdl EXCEPT !.command = mdl.textInput.value,
                !.editMode = FALSE,
                !.textInput = Blur(mdl.textInput)]

\* A mutant of UpdateEditEnter: saving the edit ends the pass with ActionEdit
UpdateEditEnterReturns(mdl) ==
    [mdl EXCEPT !.command = mdl.textInput.value,
                !.editMode = FALSE,
                !.textInput = Blur(mdl.textInput),
                !.riskAssessment = AnalyzeCommand(mdl.textInput.value),
                !.result = [Action |-> ActionEdit, Command |-> mdl.textInput.value,
                            RefinementQuery |-> <<>>],
                !.done = TRUE]

\* A mutant of UpdateEditEnter: saving a dangerous edit goes straight on to the
\* typed confirmation
UpdateEditEnterAsks(mdl) ==
    [mdl EXCEPT !.command = mdl.textInput.value,
                !.editMode = FALSE,
                !.confirmMode = AnalyzeCommand(mdl.textInput.value).Level >= RiskHigh,
                !.textInput = Blur(mdl.textInput),
                !.riskAssessment = AnalyzeCommand(mdl.textInput.value)]

\* Update, edit mode, case "enter"
UpdateEditEnter(mdl) ==
    [mdl EXCEPT !.command = mdl.textInput.value,
                !.editMode = FALSE,
                !.textInput = Blur(mdl.textInput),
                !.riskAssessment = AnalyzeCommand(mdl.textInput.value)]

\* A mutant of UpdateEditEsc: leaving the edit keeps the typed text as the command
UpdateEditEscKeeps(mdl) ==
    [mdl EXCEPT !.command = mdl.textInput.value,
                !.editMode = FALSE,
                !.textInput = Blur(mdl.textInput)]

\* Update, edit mode, case "esc"
UpdateEditEsc(mdl) ==
    [mdl EXCEPT !.editMode = FALSE, !.textInput = Blur(mdl.textInput)]

\* Update, "if m.editMode"
UpdateEdit(mdl, msg) ==
    IF String(msg) = KeyEnter THEN UpdateEditEnter(mdl)
    ELSE IF String(msg) = KeyEsc THEN UpdateEditEsc(mdl)
    ELSE [mdl EXCEPT !.textInput = TextInputUpdate(mdl.textInput, msg)]

\* A mutant of UpdateConfirmEnter: the typed text is compared untrimmed
UpdateConfirmEnterUntrimmed(mdl) ==
    IF mdl.textInput.value = GetConfirmationWord(mdl.riskAssessment.Level)
    THEN [mdl EXCEPT !.result = ExecuteResult(mdl), !.done = TRUE]
    ELSE [mdl EXCEPT !.textInput = SetValue(mdl.textInput, <<>>)]

\* A mutant of UpdateConfirmEnter: the comparison ignores case (strings.EqualFold)
UpdateConfirmEnterFold(mdl) ==
    IF ToLower(TrimSpace(mdl.textInput.value))
         = ToLower(GetConfirmationWord(mdl.riskAssessment.Level))
    THEN [mdl EXCEPT !.result = ExecuteResult(mdl), !.done = TRUE]
    ELSE [mdl EXCEPT !.textInput = SetValue(mdl.textInput, <<>>)]

\* A mutant of UpdateConfirmEnter: a wrong confirmation leaves the confirm mode
UpdateConfirmEnterGivesUp(mdl) ==
    IF TrimSpace(mdl.textInput.value) = GetConfirmationWord(mdl.riskAssessment.Level)
    THEN [mdl EXCEPT !.result = ExecuteResult(mdl), !.done = TRUE]
    ELSE [mdl EXCEPT !.confirmMode = FALSE,
                     !.textInput = SetValue(Blur(mdl.textInput), <<>>)]

\* Update, confirm mode, case "enter"
UpdateConfirmEnter(mdl) ==
    IF TrimSpace(mdl.textInput.value) = GetConfirmationWord(mdl.riskAssessment.Level)
    THEN [mdl EXCEPT !.result = ExecuteResult(mdl), !.done = TRUE]
    ELSE [mdl EXCEPT !.textInput = SetValue(mdl.textInput, <<>>)]

\* Update, confirm mode, case "esc"
UpdateConfirmEsc(mdl) ==
    [mdl EXCEPT !.confirmMode = FALSE,
                !.textInput = SetValue(Blur(mdl.textInput), <<>>)]

\* A mutant of UpdateConfirm: the decline keys of the menu cancel from the typed
\* confirmation as well
UpdateConfirmDeclines(mdl, msg) ==
    IF String(msg) = KeyEnter THEN UpdateConfirmEnter(mdl)
    ELSE IF String(msg) = KeyEsc THEN UpdateConfirmEsc(mdl)
    ELSE IF String(msg) \in {<<"n">>, <<"N">>, <<"q">>}
    THEN [mdl EXCEPT !.result = CancelResult(mdl), !.done = TRUE]
    ELSE [mdl EXCEPT !.textInput = TextInputUpdate(mdl.textInput, msg)]

\* Update, "if m.confirmMode"
UpdateConfirm(mdl, msg) ==
    IF String(msg) = KeyEnter THEN UpdateConfirmEnter(mdl)
    ELSE IF String(msg) = KeyEsc THEN UpdateConfirmEsc(mdl)
    ELSE [mdl EXCEPT !.textInput = TextInputUpdate(mdl.textInput, msg)]

\* A mutant of UpdateRefineEnter: the request is trimmed before it is carried
UpdateRefineEnterTrimmed(mdl) ==
    [mdl EXCEPT !.result = [Action |-> ActionRefine, Command |-> mdl.command,
                            RefinementQuery |-> TrimSpace(mdl.textInput.value)],
                !.done = TRUE]

\* Update, refine mode, case "enter"
UpdateRefineEnter(mdl) ==
    [mdl EXCEPT !.result = [Action |-> ActionRefine, Command |-> mdl.command,
                            RefinementQuery |-> mdl.textInput.value],
                !.done = TRUE]

\* Update, refine mode, case "esc"
UpdateRefineEsc(mdl) ==
    [mdl EXCEPT !.refineMode = FALSE,
                !.textInput = SetValue(Blur(mdl.textInput), <<>>)]

\* Update, "if m.refineMode"
UpdateRefine(mdl, msg) ==
    IF String(msg) = KeyEnter THEN UpdateRefineEnter(mdl)
    ELSE IF String(msg) = KeyEsc THEN UpdateRefineEsc(mdl)
    ELSE [mdl EXCEPT !.textInput = TextInputUpdate(mdl.textInput, msg)]

AcceptKeys  == {<<"y">>, <<"Y">>, KeyEnter}
DeclineKeys == {<<"n">>, <<"N">>, <<"q">>, KeyEsc}
EditKeys    == {<<"e">>, <<"E">>}
RefineKeys  == {<<"r">>, <<"R">>}
ExplainKeys == {<<"x">>, <<"X">>}

\* A mutant of UpdateNormalAccept: every command is executed on a bare accept
UpdateNormalAcceptUngated(mdl) ==
    [mdl EXCEPT !.result = ExecuteResult(mdl), !.done = TRUE]

\* A mutant of UpdateNormalAccept: only Critical asks for the typed confirmation
UpdateNormalAcceptAboveHigh(mdl) ==
    IF mdl.riskAssessment.Level > RiskHigh
    THEN [mdl EXCEPT !.confirmMode = TRUE,
                     !.textInput = [Focus(SetValue(mdl.textInput, <<>>))
                                      EXCEPT !.placeholder = ""]]
    ELSE [mdl EXCEPT !.result = ExecuteResult(mdl), !.done = TRUE]

\* A mutant of UpdateNormalAccept: every accept asks for the typed confirmation
UpdateNormalAcceptAlwaysAsks(mdl) ==
    [mdl EXCEPT !.confirmMode = TRUE,
                !.textInput = [Focus(SetValue(mdl.textInput, <<>>))
                                 EXCEPT !.placeholder = ""]]

\* A mutant of UpdateNormalAccept: the text input is focused but not cleared
UpdateNormalAcceptKeepsInput(mdl) ==
    IF mdl.riskAssessment.Level >= RiskHigh
    THEN [mdl EXCEPT !.confirmMode = TRUE,
                     !.textInput = [Focus(mdl.textInput) EXCEPT !.placeholder = ""]]
    ELSE [mdl EXCEPT !.result = ExecuteResult(mdl), !.done = TRUE]

\* Update, normal mode, case "y", "Y", "enter"
UpdateNormalAccept(mdl) ==
    IF mdl.riskAssessment.Level >= RiskHigh
    THEN [mdl EXCEPT !.confirmMode = TRUE,
                     !.textInput = [Focus(SetValue(mdl.textInput, <<>>))
                                      EXCEPT !.placeholder = ""]]
    ELSE [mdl EXCEPT !.result = ExecuteResult(mdl), !.done = TRUE]

\* A mutant of UpdateNormalCancel: the program quits without recording the action
UpdateNormalCancelUnrecorded(mdl) ==
    [mdl EXCEPT !.done = TRUE]

\* Update, normal mode, case "n", "N", "q", "esc" and case "ctrl+c"
UpdateNormalCancel(mdl) ==
    [mdl EXCEPT !.result = CancelResult(mdl), !.done = TRUE]

\* Update, "Normal mode key handling"
UpdateNormal(mdl, msg) ==
    IF String(msg) \in AcceptKeys THEN UpdateNormalAccept(mdl)
    ELSE IF String(msg) \in DeclineKeys THEN UpdateNormalCancel(mdl)
    ELSE IF String(msg) \in EditKeys
    THEN [mdl EXCEPT !.editMode = TRUE,
                     !.textInput = [Focus(SetValue(mdl.textInput, mdl.command))
                                      EXCEPT !.placeholder = ""]]
    ELSE IF String(msg) \in RefineKeys
    THEN [mdl EXCEPT !.refineMode = TRUE,
                     !.textInput = [Focus(SetValue(mdl.textInput, <<>>))
                                      EXCEPT !.placeholder = PlaceholderRefine]]
    ELSE IF String(msg) \in ExplainKeys
    THEN [mdl EXCEPT !.result = [Action |-> ActionExplain, Command |-> mdl.command,
                                 RefinementQuery |-> <<>>],
                     !.done = TRUE]
    ELSE IF String(msg) = KeyCtrlC THEN UpdateNormalCancel(mdl)
    ELSE mdl

\* Model.Update, case tea.KeyMsg: the new model
UpdateKey(mdl, msg) ==
    IF mdl.editMode THEN UpdateEdit(mdl, msg)
    ELSE IF mdl.confirmMode THEN UpdateConfirm(mdl, msg)
    ELSE IF mdl.refineMode THEN UpdateRefine(mdl, msg)
    ELSE UpdateNormal(mdl, msg)

\* tea.WindowSizeMsg{Width: w}
WindowSizeMsg(w) == [Type |-> "WindowSize", Runes |-> <<>>, Width |-> w]

\* Model.Update: the new model
Update(mdl, msg) ==
    IF msg.Type = "WindowSize" THEN UpdateWindowSize(mdl, msg.Width)
    ELSE UpdateKey(mdl, msg)

----------------------------------------------------------------------------
(* internal/ui/tui.go: View.  A frame is the sequence of the blocks written *)
(* to the builder, each with the style it is rendered in.                   *)

Block(kind, style, text, items, more) ==
    [kind |-> kind, style |-> style, text |-> text, items |-> items, more |-> more]

\* b.WriteString(titleStyle.Render(...)), b.WriteString(providerStyle.Render(...))
ViewHeader(mdl) ==
    << Block("title", "titleStyle", "x - Natural Language Shell", <<>>, <<>>),
       Block("provider", "providerStyle", "Using %s (%s)", <<mdl.provider, mdl.modelName>>, <<>>) >>

\* "Risk badge"
ViewBadge(mdl) ==
    IF mdl.riskAssessment.Level > RiskNone
    THEN << Block("badge",
                  IF mdl.riskAssessment.Level >= RiskHigh THEN "danger" ELSE "caution",
                  GetRiskLevelName(mdl.riskAssessment.Level), <<>>, <<>>) >>
    ELSE <<>>

\* "Command box (red border for dangerous commands)"
ViewCommandBox(mdl) ==
    << Block("command",
             IF mdl.riskAssessment.Level >= RiskHigh
             THEN "commandBoxDangerStyle" ELSE "commandBoxStyle",
             "", mdl.command, <<>>) >>

\* A mutant of ViewWarningBox: the box is shown whenever there is a warning
ViewWarningBoxAnyLevel(mdl) ==
    IF Len(mdl.riskAssessment.Warnings) > 0
    THEN << Block("warnings", "warningBoxStyle", "SAFETY WARNINGS",
                  mdl.riskAssessment.Warnings, mdl.riskAssessment.Suggestions) >>
    ELSE <<>>

\* "Warning box for dangerous commands": the warnings, then the suggestions if any
ViewWarningBox(mdl) ==
    IF Len(mdl.riskAssessment.Warnings) > 0 /\ mdl.riskAssessment.Level >= RiskMedium
    THEN << Block("warnings", "warningBoxStyle", "SAFETY WARNINGS",
                  mdl.riskAssessment.Warnings,
                  IF Len(mdl.riskAssessment.Suggestions) > 0
                  THEN mdl.riskAssessment.Suggestions ELSE <<>>) >>
    ELSE <<>>

\* "Explanation box (if showing)"
ViewExplanationBox(mdl) ==
    IF mdl.showExplanation /\ mdl.explanation # ""
    THEN << Block("explanation", "explanationBoxStyle", mdl.explanation, <<>>, <<>>) >>
    ELSE <<>>

\* m.textInput.View(): the value, or the placeholder while the value is empty
TextInputView(ti) ==
    Block("input", IF ti.focus THEN "focused" ELSE "blurred",
          IF ti.value = <<>> THEN ti.placeholder ELSE "", ti.value, <<>>)

\* renderHelp()
renderHelp ==
    Block("help", "helpStyle", "",
          <<"y/Enter", "n/Esc", "e", "r", "x">>,
          <<"Execute", "Cancel", "Edit command", "Refine with AI", "Explain command">>)

\* renderDangerHelp()
renderDangerHelp ==
    Block("help", "helpStyle", "",
          <<"y", "n/Esc", "e", "r", "x">>,
          <<"Requires typed confirmation", "Cancel (recommended)", "Edit command",
            "Refine with AI", "Explain command">>)

\* The prompt of the mode, the text input and the help of the mode, or the help
\* of the action menu
ViewFooter(mdl) ==
    IF mdl.confirmMode
    THEN << Block("prompt", "dangerInputPromptStyle",
                  "Type '%s' to execute this dangerous command:",
                  GetConfirmationWord(mdl.riskAssessment.Level), <<>>),
            TextInputView(mdl.textInput),
            Block("help", "helpStyle", "Press Esc to cancel", <<>>, <<>>) >>
    ELSE IF mdl.editMode
    THEN << Block("prompt", "inputPromptStyle", "Edit command:", <<>>, <<>>),
            TextInputView(mdl.textInput),
            Block("help", "helpStyle", "Press Enter to confirm, Esc to cancel", <<>>, <<>>) >>
    ELSE IF mdl.refineMode
    THEN << Block("prompt", "inputPromptStyle",
                  "How would you like to refine this command?", <<>>, <<>>),
            TextInputView(mdl.textInput),
            Block("help", "helpStyle", "Press Enter to refine, Esc to cancel", <<>>, <<>>) >>
    ELSE IF mdl.riskAssessment.Level >= RiskHigh
    THEN << renderDangerHelp >>
    ELSE << renderHelp >>

View(mdl) ==
    IF mdl.done THEN <<>>
    ELSE ViewHeader(mdl) \o ViewBadge(mdl) \o ViewCommandBox(mdl) \o ViewWarningBox(mdl)
            \o ViewExplanationBox(mdl) \o ViewFooter(mdl)

----------------------------------------------------------------------------
(* Bounds and inputs                                                        *)

\* Longest text the user types into the text input
MaxInput == 22

\* Commands the Command Generator and the Command Refiner answer with
GeneratedCommands == {<<"g","i","t"," ","b","r","a","n","c","h">>, <<"c","h","m","o","d"," ","7","7","7"," ","x">>, <<"s","u","d","o"," ","r","m"," ","-","r","f"," ","/">>}

\* Texts the user types (or pastes) in one key message
TypedTexts ==
    {WordConfirm, <<"i"," ","u","n","d","e","r","s","t","a","n","d"," ","t","h","e"," ","r","i","s","k">>, WordUnderstand, <<" ","I"," ","U","N","D","E","R","S","T","A","N","D"," ","T","H","E"," ","R","I","S","K">>, <<"r","m"," ","-","r","f"," ","/">>}

\* Explanations the Command Explainer answers with
Explanations == {"Explains the command."}

NamedKeys == {KeyEnter, KeyEsc, KeyCtrlC, KeyCtrlU}

LetterKeys == AcceptKeys \cup DeclineKeys \cup EditKeys \cup RefineKeys \cup ExplainKeys

ProviderName == "openai"

ModelName == "gpt-4o-mini"

----------------------------------------------------------------------------
(* internal/cli/root.go: runInteractiveLoop around the review passes        *)

VARIABLES
    m,        \* the ui.Model of the review pass that is running or has just ended
    pc,       \* where runCommand / runInteractiveLoop is
    command,  \* runInteractiveLoop's command
    result,   \* the ui.Result the last ended review pass returned
    shell,    \* the commands handed to executeShellCommand, in order
    outcome,  \* what runCommand returned
    calls,    \* the blocking calls (provider, shell) that have not returned yet
    printed,  \* what the step just taken wrote through ui.PrintError
    env,      \* the value of SHELL in the environment, "" when unset
    prov,     \* the provider p: its model list and how far GenerateCommand is
    cfg,      \* the configuration cfgMgr.Load() returned
    late      \* the key messages delivered to Update after it returned tea.Quit

vars == <<m, pc, command, result, shell, outcome, calls, printed, env, prov, cfg, late>>

Reviewing == pc \in {"RunTUI", "RunTUIWithExplanation"}

InSubMode(mdl) == mdl.editMode \/ mdl.confirmMode \/ mdl.refineMode

\* A blocking call and its arguments
Call(fn, args) == [fn |-> fn, args |-> args]

NothingPrinted == ""

\* The models a provider falls back to, in the order New... appends them
FallbackModels(name) ==
    CASE name = "openai"    -> <<"gpt-4o-mini", "gpt-3.5-turbo">>
      [] name = "anthropic" -> <<"claude-3-5-haiku-20241022", "claude-3-haiku-20240307">>
      [] name = "gemini"    -> <<"gemini-2.0-flash-exp", "gemini-1.5-flash", "gemini-pro">>
      [] name = "ollama"    -> <<>>

NoResponse == [Command |-> <<>>, Model |-> "", Provider |-> ""]

NoError == ""

ErrModelNotFound == "model not found"

ErrAPIFailure == "API request failed"

ErrEmptyResponse == "empty response from API"

\* A mutant of ProviderModels: the fallback models are appended whatever the
\* configured model is
ProviderModelsAll(name, cfgModel) == <<cfgModel>> \o FallbackModels(name)

\* NewOpenAI, NewAnthropic, NewGemini: the configured model, then each fallback
\* model that is not the configured one
ProviderModels(name, cfgModel) ==
    <<cfgModel>> \o SelectSeq(FallbackModels(name), LAMBDA f : cfgModel # f)

\* The provider as New... returns it, GenerateCommand not yet called
NewProvider(name, cfgModel) ==
    [name |-> name, cfgModel |-> cfgModel, models |-> ProviderModels(name, cfgModel),
     index |-> 0, tried |-> <<>>, lastErr |-> NoError,
     resp |-> NoResponse, err |-> NoError]

\* config.go: the defaults NewManager sets
DefaultOpenAIModel == "gpt-4o-mini"

DefaultAnthropicModel == "claude-3-5-haiku-20241022"

DefaultGeminiModel == "gemini-2.0-flash-exp"

\* The Config that Load returns: the API keys and OLLAMA_MODEL as the
\* environment or the config file set them ("" when not set), the models at
\* their defaults
Config(openai, anthropic, gemini, ollama) ==
    [OpenAIAPIKey |-> openai, OpenAIModel |-> DefaultOpenAIModel,
     AnthropicAPIKey |-> anthropic, AnthropicModel |-> DefaultAnthropicModel,
     GeminiAPIKey |-> gemini, GeminiModel |-> DefaultGeminiModel,
     OllamaModel |-> ollama]

\* Only OPENAI_API_KEY is set
DefaultConfig == Config("sk-key", "", "", "")

\* runCommand: p.GenerateCommand(ctx, promptText) has been called; no review
\* pass has begun, m is an empty model
Init ==
    /\ command = <<>>
    /\ m = NewModel(<<>>, ProviderName, ModelName)
    /\ pc = "GenerateCommand"
    /\ result = NoResult
    /\ shell = <<>>
    /\ outcome = "running"
    /\ calls = {Call("GenerateCommand", <<>>)}
    /\ printed = NothingPrinted
    /\ env = ""
    /\ cfg = DefaultConfig
    /\ late = 0
    /\ prov = NewProvider(ProviderName, ModelName)

\* ui.RunTUI(command, ...): a fresh model, a fresh program
RunTUI(cmd) ==
    /\ m' = NewModel(cmd, ProviderName, ModelName)
    /\ pc' = "RunTUI"
    /\ result' = NoResult

\* ui.RunTUIWithExplanation(command, explanation, ...)
RunTUIWithExplanation(cmd, text) ==
    /\ m' = SetExplanation(NewModel(cmd, ProviderName, ModelName), text)
    /\ pc' = "RunTUIWithExplanation"
    /\ result' = NoResult

\* p.GenerateCommand answers: runInteractiveLoop starts with resp.Command
GenerateSucceeds ==
    /\ pc = "GenerateCommand"
    /\ \E c \in GeneratedCommands :
          /\ command' = c
          /\ RunTUI(c)
    /\ calls' = {}
    /\ printed' = NothingPrinted
    /\ UNCHANGED <<env, cfg, late, prov>>
    /\ UNCHANGED <<shell, outcome>>

\* p.GenerateCommand fails: the error is printed and runCommand returns it
GenerateFails ==
    /\ pc = "GenerateCommand"
    /\ pc' = "returned"
    /\ outcome' = "generate error"
    /\ calls' = {}
    /\ printed' = "Failed to generate command"
    /\ UNCHANGED <<env, cfg, late, prov>>
    /\ UNCHANGED <<m, command, result, shell>>

\* A mutant of Deliver: keys reach a model while the loop is not in a review pass
DeliverAnytime(msg) ==
    /\ ~m.done
    /\ m' = UpdateKey(m, msg)
    /\ printed' = NothingPrinted
    /\ UNCHANGED <<env, cfg, late, prov>>
    /\ UNCHANGED <<pc, command, result, shell, outcome, calls>>

\* The program delivers one key message to Update; it delivers none once Update
\* has returned tea.Quit
Deliver(msg) ==
    /\ Reviewing
    /\ ~m.done
    /\ m' = UpdateKey(m, msg)
    /\ printed' = NothingPrinted
    /\ UNCHANGED <<env, cfg, late, prov>>
    /\ UNCHANGED <<pc, command, result, shell, outcome, calls>>

\* enter, esc, ctrl+c, ctrl+u
PressKey == \E k \in NamedKeys : Deliver(NamedKey(k))

\* one of the letters of the action menu, pressed while the menu is shown
PressLetter ==
    /\ ~InSubMode(m)
    /\ \E k \in LetterKeys \ NamedKeys : Deliver(RunesKey(k))

\* The text input holds nothing the user typed: it is empty, or holds the command
\* an edit began with
FreshInput(mdl) == mdl.textInput.value \in {<<>>, mdl.command}

\* text typed or pasted, one text into a fresh input
TypeText ==
    \E t \in TypedTexts :
        /\ InSubMode(m) => Len(m.textInput.value) + Len(t) <= MaxInput
        /\ InSubMode(m) => FreshInput(m)
        /\ Deliver(RunesKey(t))

\* A mutant of RunFails: the loop goes on to another pass after the error
RunFailsContinues ==
    /\ Reviewing
    /\ RunTUI(command)
    /\ outcome' = "tui error"
    /\ printed' = NothingPrinted
    /\ UNCHANGED <<env, cfg, late, prov>>
    /\ UNCHANGED <<command, shell, calls>>

\* p.Run() fails: RunTUI returns Result{Action: ActionCancel} and the error, and
\* the loop returns the error.  The model of the failed program is dropped: m is
\* left as the model the pass began with.
RunFails ==
    /\ Reviewing
    /\ result' = [Action |-> ActionCancel, Command |-> <<>>, RefinementQuery |-> <<>>]
    /\ m' = IF pc = "RunTUI" THEN NewModel(command, ProviderName, ModelName)
            ELSE SetExplanation(NewModel(command, ProviderName, ModelName), m.explanation)
    /\ pc' = "returned"
    /\ outcome' = "tui error"
    /\ printed' = NothingPrinted
    /\ UNCHANGED <<env, cfg, late, prov>>
    /\ UNCHANGED <<command, shell, calls>>

\* p.Run() returns the final model after tea.Quit; switch result.Action
ProgramQuits ==
    /\ Reviewing
    /\ m.done
    /\ printed' = NothingPrinted
    /\ UNCHANGED <<env, cfg, late, prov>>
    /\ CASE m.result.Action = ActionExecute ->
              /\ result' = m.result
              /\ shell' = Append(shell, m.result.Command)
              /\ calls' = calls \cup {Call("executeShellCommand", <<m.result.Command>>)}
              /\ pc' = "executeShellCommand"
              /\ UNCHANGED <<m, command, outcome>>
         [] m.result.Action = ActionCancel ->
              /\ result' = m.result
              /\ pc' = "returned"
              /\ outcome' = "cancelled"
              /\ UNCHANGED <<m, command, shell, calls>>
         [] m.result.Action = ActionEdit ->
              /\ command' = m.result.Command
              /\ RunTUI(m.result.Command)
              /\ UNCHANGED <<shell, outcome, calls>>
         [] m.result.Action = ActionRefine ->
              /\ result' = m.result
              /\ calls' = calls \cup {Call("RefineCommand", <<command, m.result.RefinementQuery>>)}
              /\ pc' = "RefineCommand"
              /\ UNCHANGED <<m, command, shell, outcome>>
         [] m.result.Action = ActionExplain /\ pc = "RunTUI" ->
              /\ result' = m.result
              /\ calls' = calls \cup {Call("ExplainCommand", <<command>>)}
              /\ pc' = "ExplainCommand"
              /\ UNCHANGED <<m, command, shell, outcome>>
         [] OTHER ->
              /\ RunTUI(command)
              /\ UNCHANGED <<command, shell, outcome, calls>>

\* p.RefineCommand(ctx, command, result.RefinementQuery) answers
RefineSucceeds ==
    /\ pc = "RefineCommand"
    /\ \E c \in GeneratedCommands :
          /\ command' = c
          /\ RunTUI(c)
    /\ calls' = {}
    /\ printed' = NothingPrinted
    /\ UNCHANGED <<env, cfg, late, prov>>
    /\ UNCHANGED <<shell, outcome>>

\* p.RefineCommand fails: the error is printed, the loop continues
RefineFails ==
    /\ pc = "RefineCommand"
    /\ RunTUI(command)
    /\ calls' = {}
    /\ printed' = "Failed to refine command"
    /\ UNCHANGED <<env, cfg, late, prov>>
    /\ UNCHANGED <<command, shell, outcome>>

\* p.ExplainCommand(ctx, command) answers
ExplainSucceeds ==
    /\ pc = "ExplainCommand"
    /\ \E text \in Explanations : RunTUIWithExplanation(command, text)
    /\ calls' = {}
    /\ printed' = NothingPrinted
    /\ UNCHANGED <<env, cfg, late, prov>>
    /\ UNCHANGED <<command, shell, outcome>>

\* p.ExplainCommand fails: the error is printed, the loop continues
ExplainFails ==
    /\ pc = "ExplainCommand"
    /\ RunTUI(command)
    /\ calls' = {}
    /\ printed' = "Failed to explain command"
    /\ UNCHANGED <<env, cfg, late, prov>>
    /\ UNCHANGED <<command, shell, outcome>>

\* A mutant of ShellReturns: a failed command is run once more
ShellReturnsRetries ==
    /\ pc = "executeShellCommand"
    /\ printed' = NothingPrinted
    /\ UNCHANGED <<env, cfg, late, prov>>
    /\ \/ /\ pc' = "returned"
          /\ outcome' = "exit 0"
          /\ calls' = {}
          /\ UNCHANGED <<m, command, result, shell>>
       \/ /\ Len(shell) < 2
          /\ shell' = Append(shell, result.Command)
          /\ UNCHANGED <<m, pc, command, result, outcome, calls>>
       \/ /\ Len(shell) >= 2
          /\ pc' = "returned"
          /\ outcome' = "exit error"
          /\ calls' = {}
          /\ UNCHANGED <<m, command, result, shell>>

\* executeShellCommand: cmd.Run() returns, and the loop returns its error
ShellReturns ==
    /\ pc = "executeShellCommand"
    /\ pc' = "returned"
    /\ outcome' \in {"exit 0", "exit error"}
    /\ calls' = {}
    /\ printed' = NothingPrinted
    /\ UNCHANGED <<env, cfg, late, prov>>
    /\ UNCHANGED <<m, command, result, shell>>

Next ==
    \/ GenerateSucceeds
    \/ GenerateFails
    \/ PressKey
    \/ PressLetter
    \/ TypeText
    \/ RunFails
    \/ ProgramQuits
    \/ RefineSucceeds
    \/ RefineFails
    \/ ExplainSucceeds
    \/ ExplainFails
    \/ ShellReturns

Spec == Init /\ [][Next]_vars


----------------------------------------------------------------------------
(* The modes of a review session, and the keys as messages                  *)

Live == Reviewing /\ ~m.done

Normal == Live /\ ~InSubMode(m)

Editing == Live /\ m.editMode

ConfirmingDangerous == Live /\ ~m.editMode /\ m.confirmMode

Refining == Live /\ ~m.editMode /\ ~m.confirmMode /\ m.refineMode

KeyOf(k) == IF k \in NamedKeys THEN NamedKey(k) ELSE RunesKey(k)

Enter == NamedKey(KeyEnter)

Esc == NamedKey(KeyEsc)

CtrlC == NamedKey(KeyCtrlC)

\* v is w with nothing but white space before and after it
PaddedWith(v, w) ==
    \E a \in 0 .. Len(v) :
        /\ a + Len(w) <= Len(v)
        /\ SubSeq(v, a + 1, a + Len(w)) = w
        /\ \A n \in 1 .. a : v[n] \in GoSpace
        /\ \A n \in (a + Len(w) + 1) .. Len(v) : v[n] \in GoSpace

Executes(mdl) == mdl.done /\ mdl.result.Action = ActionExecute

\* Retries of the typed confirmation tried by C7
MaxRetries == 3

----------------------------------------------------------------------------
(* Claims                                                                   *)

\* C1: a command is handed to executeShellCommand only when the review pass that
\* showed it ended with Execute for that very command, and, if AnalyzeCommand rates
\* it High or Critical, only with that pass in ConfirmingDangerous holding an entered
\* text whose trimmed value is the confirmation word of that level.
C1_ExecuteOnlyReviewed ==
    shell # <<>> =>
        /\ Len(shell) = 1
        /\ result.Action = ActionExecute
        /\ result.Command = shell[1]
        /\ m.done /\ m.result = result /\ m.command = shell[1]
        /\ LET level == AnalyzeCommand(shell[1]).Level
           IN  level >= RiskHigh =>
                  /\ m.confirmMode
                  /\ GetConfirmationWord(level) # <<>>
                  /\ TrimSpace(m.textInput.value) = GetConfirmationWord(level)

\* An edited command rated Critical has been handed to the shell
C1_Witness ==
    /\ shell # <<>>
    /\ shell[1] # command
    /\ AnalyzeCommand(shell[1]).Level = RiskCritical

\* C2: in every state of a review session the stored assessment is AnalyzeCommand
\* of the current command.
C2_AssessmentFresh == m.riskAssessment = AnalyzeCommand(m.command)

\* A confirmed edit has changed the command and its level
C2_Witness ==
    /\ Normal
    /\ m.command # command
    /\ m.riskAssessment.Level # AnalyzeCommand(command).Level

\* C3: in Normal mode an accept key (y, Y, enter) ends the pass with Execute of the
\* unchanged command exactly when the level is below High; at High or Critical it
\* records no action and enters ConfirmingDangerous with the pending input empty.
C3_AcceptGated ==
    Normal =>
        \A k \in AcceptKeys :
            LET n == UpdateKey(m, KeyOf(k))
            IN  /\ Executes(n) <=> m.riskAssessment.Level < RiskHigh
                /\ n.command = m.command
                /\ m.riskAssessment.Level < RiskHigh =>
                      /\ n.result = ExecuteResult(m)
                      /\ ~InSubMode(n)
                /\ m.riskAssessment.Level >= RiskHigh =>
                      /\ ~n.done /\ n.result = NoResult
                      /\ n.confirmMode /\ ~n.editMode /\ ~n.refineMode
                      /\ n.textInput.value = <<>>

\* An accept of a High command has opened the typed confirmation
C3_Witness ==
    /\ ConfirmingDangerous
    /\ m.riskAssessment.Level = RiskHigh
    /\ m.textInput.value = <<>>
    /\ m.result = NoResult

\* C4: when a command of level None is being edited and the text is one that
\* AnalyzeCommand rates High or Critical, confirming the edit stores that rating, so
\* that the accept that follows enters ConfirmingDangerous and produces no Execute.
C4_EditRescored ==
    (Editing /\ m.riskAssessment.Level = RiskNone
       /\ AnalyzeCommand(m.textInput.value).Level >= RiskHigh) =>
        LET edited == UpdateKey(m, Enter)
        IN  /\ edited.command = m.textInput.value
            /\ edited.riskAssessment.Level >= RiskHigh
            /\ ~InSubMode(edited) /\ ~edited.done
            /\ \A k \in AcceptKeys :
                  LET n == UpdateKey(edited, KeyOf(k))
                  IN  n.confirmMode /\ ~n.done /\ n.result.Action # ActionExecute

\* "git branch" was edited into "rm -rf /" and the accept asked for the phrase
C4_Witness ==
    /\ ConfirmingDangerous
    /\ AnalyzeCommand(command).Level = RiskNone
    /\ m.command = <<"r","m"," ","-","r","f"," ","/">>
    /\ m.riskAssessment.Level = RiskCritical

\* C5 as stated: at level Critical only the text "I UNDERSTAND THE RISK" itself is
\* accepted on confirm-entry; every other text leaves the session in
\* ConfirmingDangerous.
C5_ExactPhraseOnly ==
    (ConfirmingDangerous /\ m.riskAssessment.Level = RiskCritical) =>
        LET n == UpdateKey(m, Enter)
        IN  IF m.textInput.value = WordUnderstand
            THEN Executes(n)
            ELSE n.confirmMode /\ ~n.done /\ n.result = NoResult

\* C5 (amended): at level Critical a confirm-entry whose text, with surrounding white
\* space removed, is not "I UNDERSTAND THE RISK" leaves the session in
\* ConfirmingDangerous with nothing executed; one whose trimmed text is the phrase
\* ends the pass with Execute of the command.
C5_TrimmedPhraseOnly ==
    (ConfirmingDangerous /\ m.riskAssessment.Level = RiskCritical) =>
        LET n == UpdateKey(m, Enter)
        IN  IF PaddedWith(m.textInput.value, WordUnderstand)
            THEN Executes(n) /\ n.result.Command = m.command
            ELSE n.confirmMode /\ ~n.done /\ n.result = NoResult /\ shell = <<>>

\* The phrase typed with a leading space has confirmed a Critical command
C5_Witness ==
    /\ pc = "executeShellCommand"
    /\ m.riskAssessment.Level = RiskCritical
    /\ m.textInput.value # WordUnderstand
    /\ PaddedWith(m.textInput.value, WordUnderstand)

\* C6: a confirm-entry in ConfirmingDangerous produces Execute exactly when the
\* pending input is the confirmation word of the current level with nothing but
\* white space around it, letter case included: the word in another case and the
\* other level's word are refused.
C6_ConfirmWordMatch ==
    ConfirmingDangerous =>
        LET n    == UpdateKey(m, Enter)
            word == GetConfirmationWord(m.riskAssessment.Level)
        IN  /\ Executes(n) <=> PaddedWith(m.textInput.value, word)
            /\ (m.textInput.value # word /\ ToLower(m.textInput.value) = ToLower(word))
                  => ~Executes(n)
            /\ (m.textInput.value \in {WordConfirm, WordUnderstand} \ {word})
                  => ~Executes(n)

\* A High command was confirmed with CONFIRM
C6_Witness ==
    /\ Executes(m)
    /\ m.confirmMode
    /\ m.riskAssessment.Level = RiskHigh
    /\ m.textInput.value = WordConfirm

RECURSIVE Mismatches(_, _, _)
\* mdl after k confirm-entries of the text wrong
Mismatches(mdl, wrong, k) ==
    IF k = 0 THEN mdl
    ELSE Mismatches(UpdateKey(UpdateKey(mdl, RunesKey(wrong)), Enter), wrong, k - 1)

\* C7: a mismatching confirm-entry changes nothing but the pending input, which it
\* empties; after any number of such entries the session is still in
\* ConfirmingDangerous with the same command and assessment, and typing the
\* confirmation word then ends the pass with Execute.
C7_RetryUnlimited ==
    ConfirmingDangerous =>
        LET word == GetConfirmationWord(m.riskAssessment.Level)
        IN  /\ ~PaddedWith(m.textInput.value, word) =>
                  UpdateKey(m, Enter) = [m EXCEPT !.textInput.value = <<>>]
            /\ \A wrong \in TypedTexts : \A k \in 1 .. MaxRetries :
                  ~PaddedWith(wrong, word) =>
                      LET start == [m EXCEPT !.textInput.value = <<>>]
                          after == Mismatches(start, wrong, k)
                          n     == UpdateKey(UpdateKey(after, RunesKey(word)), Enter)
                      IN  /\ after = start
                          /\ Executes(n) /\ n.result.Command = m.command

\* A wrong text is about to be entered in ConfirmingDangerous
C7_Witness ==
    /\ ConfirmingDangerous
    /\ m.textInput.value # <<>>
    /\ ~PaddedWith(m.textInput.value, GetConfirmationWord(m.riskAssessment.Level))

\* C8: escape in Editing, Refining or ConfirmingDangerous returns to Normal with
\* command and assessment unchanged and no action recorded, and what was typed
\* does not matter to anything the session does next.
C8_EscapeRestores ==
    (Live /\ InSubMode(m)) =>
        LET n     == UpdateKey(m, Esc)
            clean == [n EXCEPT !.textInput.value = <<>>]
        IN  /\ ~InSubMode(n) /\ ~n.done /\ n.result = NoResult
            /\ n.command = m.command
            /\ n.riskAssessment = m.riskAssessment
            /\ \A k \in NamedKeys \cup LetterKeys \cup TypedTexts :
                  LET a == UpdateKey(n, KeyOf(k))
                      b == UpdateKey(clean, KeyOf(k))
                  IN  /\ a.result = b.result /\ a.done = b.done
                      /\ a.command = b.command
                      /\ a.riskAssessment = b.riskAssessment
                      /\ <<a.editMode, a.confirmMode, a.refineMode>>
                           = <<b.editMode, b.confirmMode, b.refineMode>>
                      /\ InSubMode(a) => a.textInput = b.textInput

\* An edit was abandoned with text typed: the session is back in Normal with the
\* command the loop gave it, the typed text still in the text input
C8_Witness ==
    /\ Normal
    /\ m.command = command
    /\ m.textInput.value # <<>>
    /\ m.textInput.value # m.command

\* C9: in Normal mode n, N, q, esc and ctrl+c record Cancel whatever the level, and
\* a pass that returned Cancel ends the loop: nothing was handed to the shell and
\* no step follows.
C9_DeclineCancels ==
    /\ Normal =>
          \A k \in DeclineKeys \cup {KeyCtrlC} :
              LET n == UpdateKey(m, KeyOf(k))
              IN  n.done /\ n.result = CancelResult(m)
    /\ result.Action = ActionCancel =>
          /\ pc = "returned"
          /\ shell = <<>>
          /\ ~ENABLED Next

\* A Critical command was declined and the loop has returned
C9_Witness ==
    /\ pc = "returned"
    /\ outcome = "cancelled"
    /\ m.riskAssessment.Level = RiskCritical

\* C10: ctrl+c ends the review pass with Cancel from every mode.
C10_InterruptEverywhere ==
    Live =>
        LET n == UpdateKey(m, CtrlC)
        IN  n.done /\ n.result.Action = ActionCancel

----------------------------------------------------------------------------
(* Claims about runInteractiveLoop                                          *)

CollaboratorCalls == {c \in calls : c.fn \in {"RefineCommand", "ExplainCommand"}}

TerminalActions == {ActionExecute, ActionCancel, ActionRefine, ActionExplain}

\* C11: the Refiner and the Explainer are called with the command the ended pass
\* carried in its result (the edited command, if the user saved an edit), and the
\* pass that follows is about that command or about the Refiner's answer, never
\* about a command the user had replaced by an edit.
C11_EditCarried ==
    /\ [](\A c \in CollaboratorCalls : c.args[1] = result.Command)
    /\ [][pc = "ExplainCommand" /\ Reviewing' => m'.command = result.Command]_vars
    /\ [][pc = "RefineCommand" /\ Reviewing' =>
             ( \/ (printed' = NothingPrinted /\ m'.command \in GeneratedCommands)
               \/ m'.command = result.Command )]_vars

\* C12: enter in Refining ends the pass with Refine carrying the session's
\* command as it is and the text input's value as it is, at every risk level,
\* and hands the shell nothing.
C12_RefineCarries ==
    Refining =>
        LET n == UpdateKey(m, Enter)
        IN  /\ n.done
            /\ n.result = [Action |-> ActionRefine, Command |-> m.command,
                           RefinementQuery |-> m.textInput.value]
            /\ n.command = m.command
            /\ n.riskAssessment = m.riskAssessment
            /\ shell = <<>>

\* A Critical command is in Refining with a request typed that begins with a blank
C12_Witness ==
    /\ Refining
    /\ m.riskAssessment.Level = RiskCritical
    /\ m.textInput.value # <<>>
    /\ m.textInput.value # TrimSpace(m.textInput.value)

\* C13: a failed RefineCommand or ExplainCommand is printed, hands the shell
\* nothing, and is followed by a pass in Normal mode about the command the ended
\* pass was about when Refine or Explain was chosen.
C13_FailureKeepsCommand ==
    [][(pc \in {"RefineCommand", "ExplainCommand"}) /\ printed' # NothingPrinted =>
          ( /\ printed' = (IF pc = "RefineCommand" THEN "Failed to refine command"
                           ELSE "Failed to explain command")
            /\ shell' = shell
            /\ pc' = "RunTUI"
            /\ m' = NewModel(result.Command, ProviderName, ModelName)
            /\ ~InSubMode(m') )]_vars

\* C14: a pass that ends with Explain, whichever pass it is, is followed by one
\* call of ExplainCommand, and an answered call by a pass that shows the answer.
C14_ExplainAlwaysCalled ==
    /\ [][ProgramQuits /\ m.result.Action = ActionExplain =>
             ( /\ pc' = "ExplainCommand"
               /\ Cardinality({c \in calls' : c.fn = "ExplainCommand"}) = 1 )]_vars
    /\ [][pc = "ExplainCommand" /\ printed' = NothingPrinted =>
             ( /\ pc' = "RunTUIWithExplanation"
               /\ m'.showExplanation
               /\ m'.explanation \in Explanations )]_vars

\* C15: a pass that ends with Execute is followed by one call of
\* executeShellCommand with the command of the result; when it returns, whatever
\* its exit status, the loop returns: the command is not run again and no pass or
\* provider call follows.
C15_ExecuteOnce ==
    /\ [](pc = "executeShellCommand" =>
             /\ result.Action = ActionExecute
             /\ calls = {Call("executeShellCommand", <<result.Command>>)}
             /\ shell = <<result.Command>>)
    /\ [][ProgramQuits /\ m.result.Action = ActionExecute =>
             pc' = "executeShellCommand"]_vars
    /\ [][pc = "executeShellCommand" =>
             ( /\ pc' = "returned"
               /\ outcome' \in {"exit 0", "exit error"}
               /\ shell' = shell
               /\ calls' = {} )]_vars
    /\ [](outcome \in {"exit 0", "exit error"} =>
             /\ pc = "returned"
             /\ shell = <<result.Command>>
             /\ ~ENABLED Next)

\* The command ran and failed, and the loop has returned
C15_Witness ==
    /\ pc = "returned"
    /\ outcome = "exit error"
    /\ shell = <<result.Command>>

\* C16: when p.Run() fails the pass returns the error and the loop returns it:
\* the shell is handed nothing, no call is outstanding and no step follows.
C16_RunErrorFatal ==
    /\ [][Reviewing /\ ~ProgramQuits /\ pc' # pc =>
             pc' = "returned" /\ outcome' = "tui error"]_vars
    /\ [](outcome = "tui error" =>
             /\ pc = "returned"
             /\ result.Action = ActionCancel
             /\ shell = <<>>
             /\ calls = {}
             /\ ~ENABLED Next)

\* A pass that showed an explanation failed and the loop has returned
C16_Witness ==
    /\ outcome = "tui error"
    /\ pc = "returned"
    /\ m.showExplanation

\* C17: at most one blocking call is outstanding, a call is outstanding exactly
\* when the loop is at that call, and a model takes a key only in a review pass
\* with no call outstanding.
C17_OneBlockingCall ==
    /\ [](/\ Cardinality(calls) <= 1
          /\ \A c \in calls : c.fn = pc
          /\ calls # {} <=>
                pc \in {"GenerateCommand", "RefineCommand", "ExplainCommand",
                        "executeShellCommand"}
          /\ Reviewing => calls = {})
    /\ [][pc' = pc /\ m' # m => Reviewing /\ calls = {}]_vars
    /\ [][shell' # shell => Reviewing /\ calls = {}]_vars

\* RefineCommand is outstanding, and it is the only call
C17_Witness ==
    /\ pc = "RefineCommand"
    /\ Cardinality(calls) = 1
    /\ m.done

----------------------------------------------------------------------------
(* internal/safety/safety.go: AnalyzeCommand over a range of commands       *)

\* The commands proper
CommandCores ==
    {<<"r","m"," ","-","r","f"," ","/">>, <<"r","m"," ","-","f","r"," ","/">>, <<"r","m"," ","-","r"," ","-","f"," ","/">>, <<"r","m"," "," ","-","r","f"," "," ","/">>,
     <<"r","m"," ","-","r","f"," ","-","-","n","o","-","p","r","e","s","e","r","v","e","-","r","o","o","t"," ","/">>, <<"r","m"," ","-","-","r","e","c","u","r","s","i","v","e"," ","-","-","f","o","r","c","e"," ","/">>, <<"R","M"," ","-","R","F"," ","/">>,
     <<"r","m"," ","-","r","f"," ","~">>, <<"r","m"," ","n","o","t","e","s",".","t","x","t">>, <<"r","m"," ","/","t","m","p","/","n","o","t","e","s",".","t","x","t">>,
     <<"c","h","m","o","d"," ","-","R"," ","7","7","7"," ",".">>, <<"c","h","m","o","d"," ","7","7","7"," ","x">>, <<"c","h","m","o","d"," ","-","R"," ","7","5","5"," ","d","i","r">>, <<"c","h","m","o","d"," ","-","r"," ","7","5","5"," ","d","i","r">>,
     <<"c","h","o","w","n"," ","-","R"," ","u","s","e","r"," ","d","i","r">>, <<"i","p","t","a","b","l","e","s"," ","-","F">>, <<"i","p","t","a","b","l","e","s"," ","-","f">>, <<"h","i","s","t","o","r","y"," ","-","c">>,
     <<"g","i","t"," ","a","d","d"," ",".">>, <<"n","p","m"," ","r","u","n"," ","c","o","n","f","i","r","m"," ","n","o","w">>, <<"l","s"," ","-","l","a">>, <<"e","c","h","o"," ","h","e","l","l","o">>, <<>>,
     <<"d","d"," ","i","f","=","/","d","e","v","/","z","e","r","o"," ","o","f","=","/","d","e","v","/","s","d","a">>, <<"d","d"," ","i","f","=","a"," ","o","f","=","b">>, <<"m","k","f","s"," ","/","d","e","v","/","s","d","b","1">>,
     <<"c","u","r","l"," ","h","t","t","p",":","/","/","x"," ","|"," ","s","h">>, <<"s","h","r","e","d"," ","x">>, <<"e","c","h","o"," ","a"," ",">"," ","b">>, <<"g","i","t"," ","b","r","a","n","c","h">>,
     <<"k","i","l","l"," ","-","9"," ","1">>, <<"u","f","w"," ","d","i","s","a","b","l","e">>, <<":","(",")","{"," ",":","|",":","&"," ","}",";",":">>, <<"G","i","t"," ","B","r","a","n","c","h">>}

\* What stands before and after a command proper
CommandPrefixes == {<<>>, <<"s","u","d","o"," ">>, <<" ">>}

CommandSuffixes == {<<>>, <<" ">>}

AnalyzedCommands ==
    {p \o c \o s : p \in CommandPrefixes, c \in CommandCores, s \in CommandSuffixes}

\* A command has been generated and NewModel is about to assess it
InitAnalysis ==
    /\ command \in AnalyzedCommands
    /\ m = NewModel(<<>>, ProviderName, ModelName)
    /\ pc = "NewModel"
    /\ result = NoResult
    /\ shell = <<>>
    /\ outcome = "running"
    /\ calls = {}
    /\ printed = NothingPrinted
    /\ env = ""
    /\ cfg = DefaultConfig
    /\ late = 0
    /\ prov = NewProvider(ProviderName, ModelName)

\* NewModel(command, ...) calls safety.AnalyzeCommand(command); the pass begins
Analyze ==
    /\ pc = "NewModel"
    /\ RunTUI(command)
    /\ UNCHANGED <<command, shell, outcome, calls, printed, env, cfg, late, prov>>

NextAnalysis == Analyze

SpecAnalysis == InitAnalysis /\ [][NextAnalysis]_vars

Assessed == pc = "RunTUI" /\ m.command = command

\* The rules whose pattern matches the normalized text of a command
MatchingRules(text) ==
    {n \in 1 .. Len(dangerousPatterns) :
        MatchString(dangerousPatterns[n].Pattern, ToLower(TrimSpace(text)))}

\* The numbers of a set in ascending order
Ascending(S) ==
    [k \in 1 .. Cardinality(S) |->
        CHOOSE e \in S : Cardinality({x \in S : x < e}) = k - 1]

\* C19: the level is the greatest level of the matching rules (None if there is
\* none), the warnings are the descriptions of the matching rules in table order,
\* one per rule, and the suggestions are their non-empty suggestions in that
\* order; so no matching rule's level is above the level returned.
C19_Aggregation ==
    Assessed =>
        LET a == m.riskAssessment
            S == MatchingRules(command)
            W == Ascending(S)
            G == Ascending({n \in S : dangerousPatterns[n].Suggestion # ""})
        IN  /\ a.Level \in RiskLevels
            /\ S = {} => a.Level = RiskNone
            /\ \A n \in S : dangerousPatterns[n].Level <= a.Level
            /\ S # {} => \E n \in S : dangerousPatterns[n].Level = a.Level
            /\ a.Warnings = [k \in 1 .. Len(W) |-> dangerousPatterns[W[k]].Description]
            /\ a.Suggestions = [k \in 1 .. Len(G) |-> dangerousPatterns[G[k]].Suggestion]

\* A dd to a disk is Critical, with the disk-write warning and then the dd warning
C19_Witness ==
    /\ Assessed
    /\ command = <<"d","d"," ","i","f","=","/","d","e","v","/","z","e","r","o"," ","o","f","=","/","d","e","v","/","s","d","a">>
    /\ m.riskAssessment.Level = RiskCritical
    /\ m.riskAssessment.Warnings =
          <<dangerousPatterns[4].Description, dangerousPatterns[12].Description>>

\* The variants of a recursive, forced rm of the root directory
RootRemovals ==
    {<<"r","m"," ","-","r","f"," ","/">>, <<"r","m"," ","-","f","r"," ","/">>, <<"r","m"," ","-","r"," ","-","f"," ","/">>, <<"r","m"," "," ","-","r","f"," "," ","/">>,
     <<"r","m"," ","-","r","f"," ","-","-","n","o","-","p","r","e","s","e","r","v","e","-","r","o","o","t"," ","/">>, <<"r","m"," ","-","-","r","e","c","u","r","s","i","v","e"," ","-","-","f","o","r","c","e"," ","/">>}

\* C20: every variant of a recursive, forced rm of the root directory, with or
\* without sudo and surrounding blanks, is assessed Critical.
C20_RootRemovalCritical ==
    Assessed /\ (\E p \in CommandPrefixes, c \in RootRemovals, s \in CommandSuffixes :
                    command = p \o c \o s)
        => m.riskAssessment.Level = RiskCritical

\* C21: "chmod -R 777 ." is assessed High: enter in Normal opens the typed
\* confirmation, and only CONFIRM executes the command.
C21_RecursiveChmod777High ==
    Assessed /\ command = <<"c","h","m","o","d"," ","-","R"," ","7","7","7"," ",".">> =>
        LET n == UpdateKey(m, Enter)
        IN  /\ m.riskAssessment.Level = RiskHigh
            /\ n.confirmMode /\ ~n.done
            /\ Executes(UpdateKey(UpdateKey(n, RunesKey(WordConfirm)), Enter))

Blank(text) == \A n \in 1 .. Len(text) : text[n] \in GoSpace

\* C22: AnalyzeCommand returns an assessment for every text, the empty text and
\* the blank texts included, and for a text no rule matches the level is None and
\* there are no warnings and no suggestions.
C22_TotalAndNoneWhenUnmatched ==
    Assessed =>
        LET a == m.riskAssessment
        IN  /\ DOMAIN a = {"Level", "Warnings", "Suggestions"}
            /\ a.Level \in RiskLevels
            /\ DOMAIN a.Warnings = 1 .. Len(a.Warnings)
            /\ DOMAIN a.Suggestions = 1 .. Len(a.Suggestions)
            /\ (\A n \in 1 .. Len(dangerousPatterns) :
                    ~MatchString(dangerousPatterns[n].Pattern, ToLower(TrimSpace(command))))
                  => a = [Level |-> RiskNone, Warnings |-> <<>>, Suggestions |-> <<>>]
            /\ (Blank(command) \/ command \in {<<"l","s"," ","-","l","a">>, <<"e","c","h","o"," ","h","e","l","l","o">>})
                  => a = [Level |-> RiskNone, Warnings |-> <<>>, Suggestions |-> <<>>]

\* A text of one blank has been assessed
C22_Witness ==
    /\ Assessed
    /\ command = <<" ">>
    /\ m.riskAssessment.Level = RiskNone

\* C24: the rules keyed on a flag fire on the flag in either letter case:
\* iptables -F is at least High, chmod -R and chown -R at least Medium.
C24_FlagRulesFire ==
    Assessed =>
        /\ command \in {<<"i","p","t","a","b","l","e","s"," ","-","F">>, <<"i","p","t","a","b","l","e","s"," ","-","f">>}
              => m.riskAssessment.Level >= RiskHigh
        /\ command \in {<<"c","h","m","o","d"," ","-","R"," ","7","5","5"," ","d","i","r">>, <<"c","h","m","o","d"," ","-","r"," ","7","5","5"," ","d","i","r">>, <<"c","h","o","w","n"," ","-","R"," ","u","s","e","r"," ","d","i","r">>}
              => m.riskAssessment.Level >= RiskMedium

\* C25: "history -c" is assessed Medium.
C25_HistoryClearMedium ==
    Assessed /\ command = <<"h","i","s","t","o","r","y"," ","-","c">> => m.riskAssessment.Level = RiskMedium

\* C26: rm without flags of a file that is neither the root nor a home directory
\* is assessed Low, and enter in Normal executes it.
C26_PlainRmLow ==
    Assessed /\ command \in {<<"r","m"," ","n","o","t","e","s",".","t","x","t">>, <<"r","m"," ","/","t","m","p","/","n","o","t","e","s",".","t","x","t">>} =>
        /\ m.riskAssessment.Level = RiskLow
        /\ Executes(UpdateKey(m, Enter))

UpperChar(c) ==
    IF \E n \in 1 .. 26 : LowerLetters[n] = c
    THEN UpperLetters[CHOOSE n \in 1 .. 26 : LowerLetters[n] = c]
    ELSE c

ToUpper(s) == [n \in 1 .. Len(s) |-> UpperChar(s[n])]

BlocksOf(frame, kind) == SelectSeq(frame, LAMBDA b : b.kind = kind)

\* The session as first shown and as shown after the keys that open a mode
FramedModels ==
    {m, UpdateKey(m, RunesKey(<<"e">>)), UpdateKey(m, RunesKey(<<"r">>)), UpdateKey(m, Enter)}

\* C28: a frame of a session that is not done has a warnings block exactly when
\* the level is at least Medium and there are warnings, the block lists all the
\* warnings and then all the suggestions, and the frame has a risk badge exactly
\* when the level is not None.
C28_WarningsAndBadgeShown ==
    Assessed =>
        \A mdl \in FramedModels :
            ~mdl.done =>
                LET a == mdl.riskAssessment
                    w == BlocksOf(View(mdl), "warnings")
                    g == BlocksOf(View(mdl), "badge")
                IN  /\ Len(w) = (IF a.Level >= RiskMedium /\ a.Warnings # <<>> THEN 1 ELSE 0)
                    /\ Len(w) = 1 => /\ w[1].items = a.Warnings
                                     /\ w[1].more = a.Suggestions
                    /\ Len(g) = (IF a.Level # RiskNone THEN 1 ELSE 0)
                    /\ Len(g) = 1 => g[1].text = GetRiskLevelName(a.Level)

\* A Low command is shown with its badge and without its warning
C28_Witness ==
    /\ Assessed
    /\ m.riskAssessment.Level = RiskLow
    /\ m.riskAssessment.Warnings # <<>>
    /\ BlocksOf(View(m), "warnings") = <<>>
    /\ Len(BlocksOf(View(m), "badge")) = 1

----------------------------------------------------------------------------
(* internal/cli/root.go: executeShellCommand, step by step                  *)

\* Values of SHELL in the environment; "" is SHELL unset or empty
ShellValues == {"", "/bin/zsh", "/usr/bin/fish"}

\* A mutant of ShellPath: SHELL is not looked at
ShellPathDefault(value) == "/bin/sh"

\* shell := os.Getenv("SHELL"); if shell == "" { shell = "/bin/sh" }
ShellPath(value) == IF value = "" THEN "/bin/sh" ELSE value

\* The model of a pass about cmd that ended with Execute
Accepted(cmd) ==
    LET n == NewModel(cmd, ProviderName, ModelName)
        c == UpdateKey(n, Enter)
    IN  IF c.done THEN c
        ELSE UpdateKey(UpdateKey(c, RunesKey(GetConfirmationWord(n.riskAssessment.Level))),
                       Enter)

\* runInteractiveLoop has called executeShellCommand(result.Command)
InitExec ==
    /\ command \in AnalyzedCommands
    /\ env \in ShellValues
    /\ cfg = DefaultConfig
    /\ late = 0
    /\ m = Accepted(command)
    /\ result = m.result
    /\ pc = "executeShellCommand"
    /\ shell = <<result.Command>>
    /\ outcome = "running"
    /\ calls = {Call("executeShellCommand", <<result.Command>>)}
    /\ printed = NothingPrinted
    /\ prov = NewProvider(ProviderName, ModelName)

\* exec.Command(shell, "-c", command) with the three standard streams; cmd.Run()
\* starts the child and waits for it
ExecRuns ==
    /\ pc = "executeShellCommand"
    /\ pc' = "cmd.Run"
    /\ calls' = calls \cup {Call("cmd.Run", <<ShellPath(env), "-c", shell[Len(shell)]>>)}
    /\ UNCHANGED <<m, command, result, shell, outcome, printed, env, cfg, late, prov>>

\* The child has terminated, or could not be started: cmd.Run() returns and
\* executeShellCommand returns what it returned
ExecReturns ==
    /\ pc = "cmd.Run"
    /\ pc' = "returned"
    /\ outcome' \in {"exit 0", "exit error", "launch error"}
    /\ calls' = {}
    /\ UNCHANGED <<m, command, result, shell, printed, env, cfg, late, prov>>

NextExec == ExecRuns \/ ExecReturns

SpecExec == InitExec /\ [][NextExec]_vars

\* C29: the command is run as <shell> -c <command>, the shell being the value of
\* SHELL, or /bin/sh when SHELL is unset or empty, and the command the whole text
\* handed to executeShellCommand; executeShellCommand returns only when cmd.Run()
\* has returned.
C29_ShellInvocation ==
    /\ [](pc = "cmd.Run" =>
             /\ outcome = "running"
             /\ calls = {Call("executeShellCommand", <<command>>),
                         Call("cmd.Run",
                              <<(IF env = "" THEN "/bin/sh" ELSE env), "-c", command>>)})
    /\ [][pc = "executeShellCommand" => pc' = "cmd.Run" /\ outcome' = "running"]_vars
    /\ [](outcome # "running" => pc = "returned" /\ calls = {})

\* With SHELL unset, a command with blanks around it is running under /bin/sh
C29_Witness ==
    /\ pc = "cmd.Run"
    /\ env = ""
    /\ cfg = DefaultConfig
    /\ late = 0
    /\ command # TrimSpace(command)
    /\ Call("cmd.Run", <<"/bin/sh", "-c", command>>) \in calls

----------------------------------------------------------------------------
(* internal/provider: GenerateCommand of the OpenAI, Anthropic and Gemini   *)
(* providers, the loop over the provider's models                           *)

FallbackProviders == {"openai", "anthropic", "gemini"}

\* Values of the configured model: each fallback model of the provider, and a
\* model of the user's own
ConfiguredModels(name) ==
    {FallbackModels(name)[n] : n \in 1 .. Len(FallbackModels(name))} \cup {"my-model"}

\* callAPI(ctx, model, prompt) for the model at position n of the list
CallModel(p, n) ==
    [p EXCEPT !.index = n, !.tried = Append(p.tried, p.models[n])]

\* GenerateCommand has entered its loop and called callAPI for the first model
InitProvider ==
    /\ \E name \in FallbackProviders :
          \E cfgModel \in ConfiguredModels(name) :
              prov = CallModel(NewProvider(name, cfgModel), 1)
    /\ pc = "callAPI"
    /\ calls = {Call("callAPI", <<prov.models[1]>>)}
    /\ command = <<>>
    /\ m = NewModel(<<>>, ProviderName, ModelName)
    /\ result = NoResult
    /\ shell = <<>>
    /\ outcome = "running"
    /\ printed = NothingPrinted
    /\ env = ""
    /\ cfg = DefaultConfig
    /\ late = 0

\* callAPI answers: return resp, nil
CallAPIAnswers ==
    /\ pc = "callAPI"
    /\ \E c \in GeneratedCommands :
          prov' = [prov EXCEPT !.resp = [Command |-> c, Model |-> prov.models[prov.index],
                                         Provider |-> prov.name]]
    /\ pc' = "GenerateCommand returned"
    /\ calls' = {}
    /\ UNCHANGED <<m, command, result, shell, outcome, printed, env, cfg, late>>

\* A mutant of CallAPIFails: the loop goes on to the next model after the error
CallAPIFailsOver ==
    /\ pc = "callAPI"
    /\ \E e \in {ErrAPIFailure, ErrEmptyResponse} :
          IF prov.index < Len(prov.models)
          THEN /\ prov' = CallModel(prov, prov.index + 1)
               /\ calls' = {Call("callAPI", <<prov.models[prov.index + 1]>>)}
               /\ pc' = pc
          ELSE /\ prov' = [prov EXCEPT !.err = e]
               /\ calls' = {}
               /\ pc' = "GenerateCommand returned"
    /\ UNCHANGED <<m, command, result, shell, outcome, printed, env, cfg, late>>

\* callAPI fails with an error other than ErrModelNotFound: return nil, err
CallAPIFails ==
    /\ pc = "callAPI"
    /\ \E e \in {ErrAPIFailure, ErrEmptyResponse} :
          prov' = [prov EXCEPT !.err = e]
    /\ pc' = "GenerateCommand returned"
    /\ calls' = {}
    /\ UNCHANGED <<m, command, result, shell, outcome, printed, env, cfg, late>>

\* callAPI fails with ErrModelNotFound: lastErr = err; continue.  After the last
\* model the loop ends and lastErr is returned
CallAPIModelNotFound ==
    /\ pc = "callAPI"
    /\ IF prov.index < Len(prov.models)
       THEN /\ prov' = CallModel([prov EXCEPT !.lastErr = ErrModelNotFound], prov.index + 1)
            /\ calls' = {Call("callAPI", <<prov.models[prov.index + 1]>>)}
            /\ pc' = pc
       ELSE /\ prov' = [prov EXCEPT !.lastErr = ErrModelNotFound,
                                    !.err = ErrModelNotFound]
            /\ calls' = {}
            /\ pc' = "GenerateCommand returned"
    /\ UNCHANGED <<m, command, result, shell, outcome, printed, env, cfg, late>>

NextProvider == CallAPIAnswers \/ CallAPIFails \/ CallAPIModelNotFound

SpecProvider == InitProvider /\ [][NextProvider]_vars

Distinct(seq) == \A a, b \in 1 .. Len(seq) : a # b => seq[a] # seq[b]

\* C30: GenerateCommand calls the models of the provider in list order, the
\* configured model first and no model twice; it calls the next model only after
\* model-not-found, returns the first answer with the model that gave it, returns
\* any other error at once, and returns model-not-found when no model is left.
C30_ModelFallback ==
    /\ [](/\ prov.models[1] = prov.cfgModel
          /\ Distinct(prov.models)
          /\ prov.tried = SubSeq(prov.models, 1, prov.index)
          /\ prov.index > 1 => prov.lastErr = ErrModelNotFound
          /\ pc = "callAPI" => prov.resp = NoResponse /\ prov.err = NoError
          /\ pc = "GenerateCommand returned" =>
                /\ (prov.resp = NoResponse) # (prov.err = NoError)
                /\ prov.resp # NoResponse =>
                      /\ prov.resp.Model = prov.tried[Len(prov.tried)]
                      /\ prov.resp.Provider = prov.name
                /\ prov.err = ErrModelNotFound => prov.tried = prov.models)
    /\ [][pc = "callAPI" /\ prov'.index # prov.index =>
             ( /\ prov'.index = prov.index + 1
               /\ prov'.lastErr = ErrModelNotFound
               /\ prov'.err = NoError /\ prov'.resp = NoResponse )]_vars
    /\ [][pc = "callAPI" /\ prov'.err \notin {NoError, ErrModelNotFound} =>
             pc' = "GenerateCommand returned" /\ prov'.tried = prov.tried]_vars

\* The configured model and the first fallback model were not found, and the
\* last model answered
C30_Witness ==
    /\ pc = "GenerateCommand returned"
    /\ prov.cfgModel = "my-model"
    /\ Len(prov.tried) = Len(prov.models)
    /\ prov.lastErr = ErrModelNotFound
    /\ prov.resp.Model = prov.models[Len(prov.models)]

----------------------------------------------------------------------------
(* internal/cli/root.go and internal/provider/registry.go: runCommand from   *)
(* the loaded configuration to the first generated command                  *)

ErrNoProvider ==
    "no API provider configured. Set one of: OPENAI_API_KEY, ANTHROPIC_API_KEY, GEMINI_API_KEY, or OLLAMA_MODEL"

\* NewRegistry: the providers in detection order
RegistryProviders == <<"openai", "anthropic", "gemini", "ollama">>

\* The configurations Load returns: each key and OLLAMA_MODEL set or not
Configs ==
    {Config(o, a, g, l) : o \in {"", "sk-key"}, a \in {"", "sk-ant-key"},
                          g \in {"", "AIza-key"}, l \in {"", "llama3", "mistral"}}

\* p.IsAvailable() of the provider New... builds from the configuration
IsAvailable(name, c) ==
    CASE name = "openai"    -> c.OpenAIAPIKey # ""
      [] name = "anthropic" -> c.AnthropicAPIKey # ""
      [] name = "gemini"    -> c.GeminiAPIKey # ""
      [] name = "ollama"    -> c.OllamaModel # ""

\* The model New... takes from the configuration
ConfiguredModel(name, c) ==
    CASE name = "openai"    -> c.OpenAIModel
      [] name = "anthropic" -> c.AnthropicModel
      [] name = "gemini"    -> c.GeminiModel
      [] name = "ollama"    -> c.OllamaModel

\* Registry.Detect: the positions of the providers that are available
AvailableAt(c) ==
    {n \in 1 .. Len(RegistryProviders) : IsAvailable(RegistryProviders[n], c)}

\* runCommand has loaded the configuration and built the registry
InitDetect ==
    /\ cfg \in Configs
    /\ late = 0
    /\ pc = "Detect"
    /\ prov = NewProvider("openai", cfg.OpenAIModel)
    /\ calls = {}
    /\ command = <<>>
    /\ m = NewModel(<<>>, ProviderName, ModelName)
    /\ result = NoResult
    /\ shell = <<>>
    /\ outcome = "running"
    /\ printed = NothingPrinted
    /\ env = ""

\* registry.Detect() returns the first available provider, and runCommand calls
\* its GenerateCommand
DetectFinds ==
    /\ pc = "Detect"
    /\ AvailableAt(cfg) # {}
    /\ LET n    == CHOOSE a \in AvailableAt(cfg) : \A b \in AvailableAt(cfg) : a <= b
           name == RegistryProviders[n]
       IN  prov' = NewProvider(name, ConfiguredModel(name, cfg))
    /\ pc' = "GenerateCommand"
    /\ calls' = {Call("GenerateCommand", <<>>)}
    /\ UNCHANGED <<m, command, result, shell, outcome, printed, env, cfg, late>>

\* registry.Detect() returns ErrNoProvider: ui.PrintError(err.Error()); return err
DetectFails ==
    /\ pc = "Detect"
    /\ AvailableAt(cfg) = {}
    /\ printed' = ErrNoProvider
    /\ outcome' = "error"
    /\ pc' = "returned"
    /\ UNCHANGED <<m, command, result, shell, calls, env, cfg, late, prov>>

NextDetect == DetectFinds \/ DetectFails \/ GenerateSucceeds \/ GenerateFails

SpecDetect == InitDetect /\ [][NextDetect]_vars

NoAPIKey(c) == c.OpenAIAPIKey = "" /\ c.AnthropicAPIKey = "" /\ c.GeminiAPIKey = ""

\* C31: with none of OPENAI_API_KEY, ANTHROPIC_API_KEY and GEMINI_API_KEY
\* configured, runCommand does not end with an error at detection: it goes on to
\* generate a command, with the free Pollinations.ai provider when no local
\* model is configured either.
C31_FreeFallback ==
    NoAPIKey(cfg) /\ pc # "Detect" =>
        /\ printed # ErrNoProvider
        /\ cfg.OllamaModel = "" => prov.name = "pollinations"
        /\ pc \in {"GenerateCommand", "RunTUI"} \/ printed # NothingPrinted

----------------------------------------------------------------------------
(* internal/ui/tui.go: one review pass under the tea.Program event loop.     *)
(* tea.Quit is a command: the loop ends when its quit message is received,   *)
(* and a key message that was read earlier is delivered to Update before it. *)

InitLateKeys ==
    /\ command \in GeneratedCommands
    /\ m = NewModel(command, ProviderName, ModelName)
    /\ pc = "RunTUI"
    /\ result = NoResult
    /\ shell = <<>>
    /\ outcome = "running"
    /\ calls = {}
    /\ printed = NothingPrinted
    /\ env = ""
    /\ cfg = DefaultConfig
    /\ late = 0
    /\ prov = NewProvider(ProviderName, ModelName)

\* Most key messages delivered to Update between tea.Quit and the quit message
MaxLateKeys == 1

\* The event loop hands one key message to Update, whether or not an earlier
\* Update has already returned tea.Quit
DeliverQueued(msg) ==
    /\ pc = "RunTUI"
    /\ m.done => late < MaxLateKeys
    /\ m' = UpdateKey(m, msg)
    /\ late' = IF m.done THEN late + 1 ELSE late
    /\ UNCHANGED <<pc, command, result, shell, outcome, calls, printed, env, cfg, prov>>

PressKeyQueued == \E k \in NamedKeys : DeliverQueued(NamedKey(k))

PressLetterQueued ==
    /\ ~InSubMode(m)
    /\ \E k \in LetterKeys \ NamedKeys : DeliverQueued(RunesKey(k))

TypeTextQueued ==
    \E t \in TypedTexts :
        /\ InSubMode(m)
        /\ FreshInput(m)
        /\ Len(m.textInput.value) + Len(t) <= MaxInput
        /\ DeliverQueued(RunesKey(t))

\* The quit message is received: p.Run() returns the model as it is now, and
\* RunTUI returns finalModel.GetResult()
QuitReceived ==
    /\ pc = "RunTUI"
    /\ m.done
    /\ result' = m.result
    /\ pc' = "returned"
    /\ UNCHANGED <<m, command, shell, outcome, calls, printed, env, cfg, late, prov>>

NextLateKeys == PressKeyQueued \/ PressLetterQueued \/ TypeTextQueued \/ QuitReceived

SpecLateKeys == InitLateKeys /\ [][NextLateKeys]_vars

\* C32: once Update has recorded a result and set done, a further key delivered
\* to the model leaves the result as it is, and the pass returns the result that
\* was recorded first.
C32_FirstResultFinal ==
    [][m.done => m'.done /\ m'.result = m.result]_vars

----------------------------------------------------------------------------
(* Claims about the modes of a review session                               *)

\* Texts of nothing but white space
BlankTexts == {<<>>, <<" ">>, <<"\t", " ">>, <<" ", " ", " ">>}

\* C33: whenever confirmMode is set, the level of the current assessment is High
\* or Critical, so the confirmation word is not empty; and entering an empty or
\* blank text in ConfirmingDangerous does not execute.
C33_ConfirmModeIsDangerous ==
    /\ m.confirmMode =>
          /\ m.riskAssessment.Level \in {RiskHigh, RiskCritical}
          /\ GetConfirmationWord(m.riskAssessment.Level) # <<>>
    /\ ConfirmingDangerous =>
          \A b \in BlankTexts :
              LET n == UpdateKey([m EXCEPT !.textInput.value = b], Enter)
              IN  ~n.done /\ n.confirmMode /\ n.result = NoResult

\* The session asks for the typed confirmation of an edited command, and nothing
\* has been typed
C33_Witness ==
    /\ ConfirmingDangerous
    /\ m.command # command
    /\ m.textInput.value = <<>>

\* The sub-modes a model is in
ModesOf(mdl) ==
    {mode \in {"Editing", "ConfirmingDangerous", "Refining"} :
        \/ mode = "Editing" /\ mdl.editMode
        \/ mode = "ConfirmingDangerous" /\ mdl.confirmMode
        \/ mode = "Refining" /\ mdl.refineMode}

EntryInput(mdl) ==
    IF mdl.editMode THEN mdl.command ELSE <<>>

----------------------------------------------------------------------------
(* internal/ui/tui.go: one review pass with every kind of message Update    *)
(* handles: named keys, letters, typed text and window sizes                *)

\* Widths of the terminal window
Widths == {80, 120}

\* Keys no case of Update names
OtherKeys == {NamedKey(<<"t","a","b">>), NamedKey(<<"u","p">>), NamedKey(KeyCtrlU), RunesKey(<<"z">>)}

\* The letters of the action menu, as typed into the text input
MenuLetters == {RunesKey(k) : k \in LetterKeys \ NamedKeys}

InitPass ==
    /\ command \in GeneratedCommands
    /\ m = NewModel(command, ProviderName, ModelName)
    /\ pc = "RunTUI"
    /\ result = NoResult
    /\ shell = <<>>
    /\ outcome = "running"
    /\ calls = {}
    /\ printed = NothingPrinted
    /\ env = ""
    /\ cfg = DefaultConfig
    /\ late = 0
    /\ prov = NewProvider(ProviderName, ModelName)

\* The event loop hands one message to Update
Handle(msg) ==
    /\ pc = "RunTUI"
    /\ ~m.done
    /\ m' = Update(m, msg)
    /\ UNCHANGED <<pc, command, result, shell, outcome, calls, printed, env, cfg, late, prov>>

PassKey == \E k \in NamedKeys : Handle(NamedKey(k))

PassMenuLetter == ~InSubMode(m) /\ \E msg \in MenuLetters : Handle(msg)

PassOtherKey == \E msg \in OtherKeys : (InSubMode(m) => FreshInput(m) /\ ~m.editMode) /\ Handle(msg)

\* A text typed into a fresh text input, or a letter of the menu typed into an
\* empty one where no command is being edited
PassTyped ==
    /\ InSubMode(m)
    /\ FreshInput(m)
    /\ \E msg \in MenuLetters \cup {RunesKey(t) : t \in TypedTexts} :
          /\ Len(m.textInput.value) + Len(msg.Runes) <= MaxInput
          /\ msg \in MenuLetters => ~m.editMode /\ m.textInput.value = <<>>
          /\ Handle(msg)

PassResize == \E w \in Widths : Handle(WindowSizeMsg(w))

NextPass == PassKey \/ PassMenuLetter \/ PassOtherKey \/ PassTyped \/ PassResize

SpecPass == InitPass /\ [][NextPass]_vars

\* m with another pending input
WithInput(mdl, text) == [mdl EXCEPT !.textInput.value = text]

\* C36: in a sub-mode a key other than enter and esc, the letters of the menu
\* among them, changes at most the pending input: command, assessment, mode,
\* result and done stay; in Normal a key that Update names nowhere changes
\* nothing, and a window size changes the width and nothing else in every mode.
C36_OnlyPendingInputChanges ==
    /\ [](Live /\ InSubMode(m) =>
             \A msg \in MenuLetters \cup OtherKeys \cup {CtrlC} :
                 Update(m, msg) = WithInput(m, Update(m, msg).textInput.value))
    /\ [](Normal => \A msg \in OtherKeys : Update(m, msg) = m)
    /\ [](Live => \A w \in Widths :
                      Update(m, WindowSizeMsg(w)) = [m EXCEPT !.width = w])
    /\ [][m'.width # m.width => m' = [m EXCEPT !.width = m'.width]]_vars
    /\ [][(Live /\ InSubMode(m) /\ m'.textInput.value # m.textInput.value
             /\ ModesOf(m') = ModesOf(m))
             => m' = WithInput(m, m'.textInput.value)]_vars

\* In ConfirmingDangerous, in a window that was resized, a letter of the menu has
\* been typed into the pending input
C36_Witness ==
    /\ ConfirmingDangerous
    /\ m.width # DefaultWidth
    /\ m.textInput.value = <<"n">>

\* C37: from every state of a pass that has not ended, escape pressed twice (once
\* in Normal) ends the pass with Cancel for the command as it stands, whatever
\* the level and whatever was typed; neither escape records Execute.
C37_EscapeAbandons ==
    Live =>
        LET a == Update(m, Esc)
            b == Update(a, Esc)
        IN  /\ ~Executes(a) /\ ~Executes(b)
            /\ Normal => a.done /\ a.result = CancelResult(m)
            /\ InSubMode(m) =>
                  /\ ~a.done /\ a.result = NoResult /\ ModesOf(a) = {}
                  /\ a.command = m.command
                  /\ b.done /\ b.result = CancelResult(m)
                  /\ b.command = m.command

\* A Critical command is being confirmed, and part of the phrase has been typed
C37_Witness ==
    /\ ConfirmingDangerous
    /\ m.riskAssessment.Level = RiskCritical
    /\ m.textInput.value = <<"i"," ","u","n","d","e","r","s","t","a","n","d"," ","t","h","e"," ","r","i","s","k">>
    /\ Update(Update(m, Esc), Esc).result.Action = ActionCancel

----------------------------------------------------------------------------
(* internal/ui/tui.go: review passes about commands as long as the text      *)
(* input's CharLimit, with the keys of the menu and the named keys          *)

Repeat(c, n) == [i \in 1 .. n |-> c]

\* Commands of CharLimit - 1 to CharLimit + 2 characters, and one whose last
\* words lie beyond CharLimit
LongCommands ==
    {<<"e","c","h","o"," ">> \o Repeat("a", n) : n \in (CharLimit - 6) .. (CharLimit - 3)}
        \cup {<<"e","c","h","o"," ">> \o Repeat("a", CharLimit - 8) \o <<" ",";"," ","r","m"," ","-","r","f"," ","/">>}

InitLong ==
    /\ command \in GeneratedCommands \cup LongCommands
    /\ m = NewModel(command, ProviderName, ModelName)
    /\ pc = "RunTUI"
    /\ result = NoResult
    /\ shell = <<>>
    /\ outcome = "running"
    /\ calls = {}
    /\ printed = NothingPrinted
    /\ env = ""
    /\ cfg = DefaultConfig
    /\ late = 0
    /\ prov = NewProvider(ProviderName, ModelName)

NextLong == PassKey \/ PassMenuLetter

SpecLong == InitLong /\ [][NextLong]_vars

\* C38: from Normal, opening the edit and saving it at once leaves the command and
\* its assessment as they were, for a command of any length.
C38_EditRoundTrip ==
    Normal =>
        LET n == Update(Update(m, RunesKey(<<"e">>)), Enter)
        IN  /\ n.command = m.command
            /\ n.riskAssessment = m.riskAssessment

----------------------------------------------------------------------------
(* Claims about rules keyed on a command name                               *)

\* The descriptions among the warnings of an assessment
WarningSet(assessment) ==
    {assessment.Warnings[n] : n \in 1 .. Len(assessment.Warnings)}

\* C39: a command in which dd or rm is only the ending of a longer word gets no
\* warning of the dd rule or of the rm rule; "git add ." is assessed None and
\* enter in Normal executes it.
C39_CommandNameRules ==
    Assessed =>
        /\ command \in {<<"g","i","t"," ","a","d","d"," ",".">>, <<"n","p","m"," ","r","u","n"," ","c","o","n","f","i","r","m"," ","n","o","w">>} =>
              WarningSet(m.riskAssessment)
                  \cap {"Low-level disk operation", "Deleting files"} = {}
        /\ command = <<"g","i","t"," ","a","d","d"," ",".">> =>
              /\ m.riskAssessment.Level = RiskNone
              /\ Executes(UpdateKey(m, Enter))

----------------------------------------------------------------------------
(* internal/provider: ExplainCommand of the provider that generated the      *)
(* command, later in the same run                                           *)

\* runInteractiveLoop calls p.ExplainCommand(ctx, command) of the provider whose
\* GenerateCommand answered: callAPISimple(ctx, o.models[0], prompt, 800)
ExplainCalled ==
    /\ pc = "GenerateCommand returned"
    /\ prov.resp # NoResponse
    /\ pc' = "callAPISimple"
    /\ calls' = {Call("callAPISimple", <<prov.models[1]>>)}
    /\ UNCHANGED <<m, command, result, shell, outcome, printed, env, cfg, late, prov>>

\* callAPISimple returns the explanation, or an error that ExplainCommand returns
\* and the loop prints
ExplainReturns ==
    /\ pc = "callAPISimple"
    /\ pc' = "ExplainCommand returned"
    /\ calls' = {}
    /\ printed' \in {NothingPrinted, "Failed to explain command"}
    /\ UNCHANGED <<m, command, result, shell, outcome, env, cfg, late, prov>>

NextExplain == NextProvider \/ ExplainCalled \/ ExplainReturns

SpecExplain == InitProvider /\ [][NextExplain]_vars

\* C40: ExplainCommand is sent to the model that answered GenerateCommand, the
\* model of the response that the review header shows.
C40_ExplainUsesWorkingModel ==
    pc = "callAPISimple" =>
        \A c \in calls : c.fn = "callAPISimple" => c.args = <<prov.resp.Model>>
====
